---- MODULE Spec2Model ----
(***************************************************************************)
(* Model of the MercadoLibre inventory agents: the listing transformer and *)
(* the idempotent export engine (export/export_sell_listings.py), the      *)
(* backend client they call (api/backend_api.py) and the identity resolver *)
(* (mcp_servers/ml_scrape_mcp/parsers.py).                                 *)
(*                                                                         *)
(* Python strings are TLA+ strings.  Python values of a dynamically typed  *)
(* card are records [t, s, n] tagged with their type.  Floats are integers *)
(* in a fixed unit (prices: 1/1000, rates: 1/100000, USD: 1/1000000) plus  *)
(* a NaN flag.                                                             *)
(***************************************************************************)
EXTENDS Integers, Sequences, FiniteSets, TLC

\* ------------------------------------------------------------------------
\* Strings
\* ------------------------------------------------------------------------
Ch(s, i) == SubSeq(s, i, i)

DigitChars == {"0", "1", "2", "3", "4", "5", "6", "7", "8", "9"}

WhitespaceChars == {" ", "\t", "\n"}

UpperLetters == "ABCDEFGHIJKLMNOPQRSTUVWXYZ"

LowerLetters == "abcdefghijklmnopqrstuvwxyz"

SetMin(S) == CHOOSE x \in S : \A y \in S : x <= y

UpperSet == {Ch(UpperLetters, i) : i \in 1..26}

LowerSet == {Ch(LowerLetters, i) : i \in 1..26}

\* Index of the character c in the alphabet a
Pos(a, c) == CHOOSE i \in 1..Len(a) : Ch(a, i) = c

LowerCh(c) == IF c \in UpperSet THEN Ch(LowerLetters, Pos(UpperLetters, c)) ELSE c

UpperCh(c) == IF c \in LowerSet THEN Ch(UpperLetters, Pos(LowerLetters, c)) ELSE c

RECURSIVE Lower(_)
Lower(s) == IF s = "" THEN "" ELSE LowerCh(Ch(s, 1)) \o Lower(SubSeq(s, 2, Len(s)))

RECURSIVE Upper(_)
Upper(s) == IF s = "" THEN "" ELSE UpperCh(Ch(s, 1)) \o Upper(SubSeq(s, 2, Len(s)))

RECURSIVE LStrip(_)
LStrip(s) ==
    IF s # "" /\ Ch(s, 1) \in WhitespaceChars THEN LStrip(SubSeq(s, 2, Len(s))) ELSE s

RECURSIVE RStrip(_)
RStrip(s) ==
    IF s # "" /\ Ch(s, Len(s)) \in WhitespaceChars
    THEN RStrip(SubSeq(s, 1, Len(s) - 1))
    ELSE s

\* str.strip()
Strip(s) == RStrip(LStrip(s))

\* sub in s
Contains(s, sub) ==
    \E i \in 1..(Len(s) - Len(sub) + 1) : SubSeq(s, i, i + Len(sub) - 1) = sub

\* s.find(sub) + 1   (0 when absent)
Find(s, sub) ==
    LET hits == {i \in 1..(Len(s) - Len(sub) + 1) : SubSeq(s, i, i + Len(sub) - 1) = sub}
    IN  IF hits = {} THEN 0 ELSE SetMin(hits)

EndsWith(s, suf) ==
    Len(s) >= Len(suf) /\ SubSeq(s, Len(s) - Len(suf) + 1, Len(s)) = suf

\* s.replace(c, r) for a one-character c
RECURSIVE Replace(_, _, _)
Replace(s, c, r) ==
    IF s = "" THEN ""
    ELSE (IF Ch(s, 1) = c THEN r ELSE Ch(s, 1)) \o Replace(SubSeq(s, 2, Len(s)), c, r)

\* Length of the run of decimal digits of s that starts at index i.
RECURSIVE DigitRun(_, _)
DigitRun(s, i) ==
    IF i <= Len(s) /\ Ch(s, i) \in DigitChars THEN 1 + DigitRun(s, i + 1) ELSE 0

\* re.search of the pattern  <lit>\d{lo,hi}  (ic: re.IGNORECASE): the leftmost
\* position where the literal is followed by at least lo digits, and the
\* number of digits the greedy quantifier takes there.
ReSearch(s, lit, lo, hi, ic) ==
    LET n    == Len(lit)
        text == IF ic THEN Lower(s) ELSE s
        pat  == IF ic THEN Lower(lit) ELSE lit
        hits == {i \in 1..(Len(s) - n + 1) :
                    SubSeq(text, i, i + n - 1) = pat /\ DigitRun(s, i + n) >= lo}
    IN  IF hits = {}
        THEN [found |-> FALSE, at |-> 0, nd |-> 0]
        ELSE LET i   == SetMin(hits)
                 run == DigitRun(s, i + n)
             IN  [found |-> TRUE, at |-> i, nd |-> IF run > hi THEN hi ELSE run]

\* hashlib.sha1(s.encode("utf-8")).hexdigest(): an injective digest of s that
\* is no permalink and no marketplace id.
Sha1Hex(s) == "sha1:" \o s

\* A local variable: v is computed once and F reads it
Bind(v, F(_)) == F(v)

\* ------------------------------------------------------------------------
\* Python values
\* ------------------------------------------------------------------------
PyAbsent  == [t |-> "absent", s |-> "", n |-> 0]

PyNone    == [t |-> "none", s |-> "", n |-> 0]

PyStr(x)  == [t |-> "str", s |-> x, n |-> 0]

\* a number, in thousandths
PyNum(k)  == [t |-> "num", s |-> "", n |-> k]

PyBool(b) == [t |-> "bool", s |-> "", n |-> IF b THEN 1 ELSE 0]

\* a dict, s its JSON text
PyDict(x) == [t |-> "dict", s |-> x, n |-> 0]

\* a list, s its JSON text
PyList(x) == [t |-> "list", s |-> x, n |-> 0]

\* bool(v)
Truthy(v) ==
    CASE v.t \in {"absent", "none"} -> FALSE
      [] v.t = "str"  -> v.s # ""
      [] v.t = "num"  -> v.n # 0
      [] v.t = "bool" -> v.n = 1
      [] v.t = "dict" -> v.s # "{}"
      [] v.t = "list" -> v.s # "[]"

\* a or b
PyOr(a, b) == IF Truthy(a) THEN a ELSE b

\* card.get(key)
Get(card, key) == IF card[key].t = "absent" THEN PyNone ELSE card[key]

\* Floats: a finite value m (in the unit of its use) or NaN.
Fin(m) == [nan |-> FALSE, m |-> m]

NaN    == [nan |-> TRUE, m |-> 0]

\* Value of the k decimal digits of s that start at index i.
RECURSIVE DigitsValue(_, _, _)
DigitsValue(s, i, k) ==
    IF k = 0 THEN 0
    ELSE 10 * DigitsValue(s, i, k - 1)
         + (CHOOSE d \in 0..9 : Ch("0123456789", d + 1) = Ch(s, i + k - 1))

\* float(text) for a str: surrounding whitespace is ignored; "nan" in any
\* letter case is NaN; otherwise an optionally signed decimal numeral with at
\* most three fraction digits (the unit is 1/1000); anything else is a
\* ValueError (ok = FALSE).
ParseFloat(text) ==
    Bind(Strip(text), LAMBDA s :
    Bind(IF s # "" /\ Ch(s, 1) \in {"-", "+"} THEN SubSeq(s, 2, Len(s)) ELSE s, LAMBDA b :
    Bind(DigitRun(b, 1), LAMBDA ni :
    Bind(ni < Len(b) /\ Ch(b, ni + 1) = ".", LAMBDA dot :
    Bind(IF dot THEN DigitRun(b, ni + 2) ELSE 0, LAMBDA nf :
        LET neg  == s # "" /\ Ch(s, 1) = "-"
            used == ni + (IF dot THEN 1 + nf ELSE 0)
            pad  == IF nf = 0 THEN 1000 ELSE IF nf = 1 THEN 100 ELSE IF nf = 2 THEN 10 ELSE 1
            mag  == 1000 * DigitsValue(b, 1, ni) + pad * DigitsValue(b, ni + 2, nf)
        IN  IF Lower(b) = "nan" THEN [ok |-> TRUE, f |-> NaN]
            ELSE IF used = Len(b) /\ ni + nf > 0 /\ nf <= 3
                 THEN [ok |-> TRUE, f |-> Fin(IF neg THEN 0 - mag ELSE mag)]
                 ELSE [ok |-> FALSE, f |-> NaN])))))

\* float(v): ok = FALSE stands for the ValueError / TypeError of float().
ToFloat(v) ==
    CASE v.t = "num"  -> [ok |-> TRUE, f |-> Fin(v.n)]
      [] v.t = "bool" -> [ok |-> TRUE, f |-> Fin(1000 * v.n)]
      [] v.t = "str"  -> ParseFloat(v.s)
      [] OTHER        -> [ok |-> FALSE, f |-> NaN]

\* json.loads(text): ok = FALSE stands for json.JSONDecodeError.
JsonLoads(text) ==
    Bind(Strip(text), LAMBDA s :
    Bind(ParseFloat(s), LAMBDA num :
        LET n == Len(s)
        IN  IF n >= 2 /\ Ch(s, 1) = "{" /\ Ch(s, n) = "}" THEN [ok |-> TRUE, v |-> PyDict(s)]
            ELSE IF n >= 2 /\ Ch(s, 1) = "[" /\ Ch(s, n) = "]"
                 THEN [ok |-> TRUE, v |-> PyList(s)]
            ELSE IF n >= 2 /\ Ch(s, 1) = "\"" /\ Ch(s, n) = "\""
                 THEN [ok |-> TRUE, v |-> PyStr(SubSeq(s, 2, n - 1))]
            ELSE IF s = "null" THEN [ok |-> TRUE, v |-> PyNone]
            ELSE IF s = "true" THEN [ok |-> TRUE, v |-> PyBool(TRUE)]
            ELSE IF s = "false" THEN [ok |-> TRUE, v |-> PyBool(FALSE)]
            ELSE IF num.ok /\ ~num.f.nan /\ Ch(s, 1) # "+"
                 THEN [ok |-> TRUE, v |-> PyNum(num.f.m)]
                 ELSE [ok |-> FALSE, v |-> PyNone]))

\* A value that is JSON-decoded when it is a str, None when the text is no JSON
JsonOrNone(raw) ==
    IF raw.t = "str"
    THEN Bind(JsonLoads(raw.s), LAMBDA j : IF j.ok THEN j.v ELSE PyNone)
    ELSE raw

\* JSON literals that are falsy as Python values
FalsyJson == {"null", "false", "0", "\"\"", "{}", "[]"}

\* bool(d.get(key)) for a dict d given by its JSON text (top-level keys only,
\* written without spaces)
DictGetTruthy(d, key) ==
    LET pat == "\"" \o key \o "\":"
        at  == Find(d.s, pat)
        val == SubSeq(d.s, at + Len(pat), Len(d.s) - 1)
    IN  /\ at # 0
        /\ \A lit \in FalsyJson : ~(val = lit \/ SubSeq(val, 1, Len(lit) + 1) = lit \o ",")

\* lst[0] for a non-empty list given by its JSON text: the first element, a
\* str when it is a JSON string, otherwise its JSON text
ListHead(lst) ==
    LET body  == SubSeq(lst.s, 2, Len(lst.s) - 1)
        comma == Find(body, ",")
    IN  Bind(IF comma = 0 THEN body ELSE SubSeq(body, 1, comma - 1), LAMBDA first :
        Bind(JsonLoads(first), LAMBDA j :
            IF j.ok THEN j.v ELSE [t |-> "json", s |-> first, n |-> 0]))

\* ------------------------------------------------------------------------
\* Identity resolver (parsers.py)
\* ------------------------------------------------------------------------
\* The text a regex group captures: the match m of <lit>\d{lo,hi} in s without
\* the first skip characters of the literal.
Group(s, m, lit, skip) == SubSeq(s, m.at + skip, m.at + Len(lit) - 1 + m.nd)

\* ITEM_ID_RE = (MLM\d{6,15})
ITEM_ID_RE(s) == ReSearch(s, "MLM", 6, 15, FALSE)

\* PRODUCT_ID_RE = /p/(MLM\d+)
PRODUCT_ID_RE(s) == ReSearch(s, "/p/MLM", 1, Len(s), FALSE)

\* UP_ID_RE = /up/(MLMU\d+)
UP_ID_RE(s) == ReSearch(s, "/up/MLMU", 1, Len(s), FALSE)

\* ARTICULO_ITEM_ID_RE = /MLM-(\d{6,15})
ARTICULO_ITEM_ID_RE(s) == ReSearch(s, "/MLM-", 6, 15, FALSE)

\* chr(code) for the ASCII letters and digits; any other byte is written "?"
AsciiChr(code) ==
    IF code >= 48 /\ code <= 57 THEN Ch("0123456789", code - 47)
    ELSE IF code >= 65 /\ code <= 90 THEN Ch(UpperLetters, code - 64)
    ELSE IF code >= 97 /\ code <= 122 THEN Ch(LowerLetters, code - 96)
    ELSE "?"

HexChars == "0123456789abcdef"

IsHex(c) == \E i \in 1..16 : Ch(HexChars, i) = LowerCh(c)

HexValue(c) == (CHOOSE i \in 1..16 : Ch(HexChars, i) = LowerCh(c)) - 1

\* urllib.parse.unquote of a query token after '+' became a space
RECURSIVE Unquote(_)
Unquote(s) ==
    IF s = "" THEN ""
    ELSE IF Ch(s, 1) = "+" THEN " " \o Unquote(SubSeq(s, 2, Len(s)))
    ELSE IF Ch(s, 1) = "%" /\ Len(s) >= 3 /\ IsHex(Ch(s, 2)) /\ IsHex(Ch(s, 3))
         THEN LET code == 16 * HexValue(Ch(s, 2)) + HexValue(Ch(s, 3))
              IN  AsciiChr(code) \o Unquote(SubSeq(s, 4, Len(s)))
         ELSE Ch(s, 1) \o Unquote(SubSeq(s, 2, Len(s)))

\* urlparse(url).query: the text between the first "?" and the fragment
UrlQuery(url) ==
    LET h == Find(url, "#")
        u == IF h = 0 THEN url ELSE SubSeq(url, 1, h - 1)
        q == Find(u, "?")
    IN  IF q = 0 THEN "" ELSE SubSeq(u, q + 1, Len(u))

\* parse_qs(query).get("wid", [None])[0], "" standing for None: the first
\* non-blank value of a name=value pair whose name is wid
RECURSIVE FirstWid(_)
FirstWid(query) ==
    LET amp  == Find(query, "&")
        part == IF amp = 0 THEN query ELSE SubSeq(query, 1, amp - 1)
        eq   == Find(part, "=")
        name == SubSeq(part, 1, eq - 1)
        val  == SubSeq(part, eq + 1, Len(part))
    IN  IF eq # 0 /\ val # "" /\ Unquote(name) = "wid" THEN Unquote(val)
        ELSE IF amp = 0 THEN ""
        ELSE FirstWid(SubSeq(query, amp + 1, Len(query)))

NoIds == [item_id |-> PyNone, product_id |-> PyNone, up_id |-> PyNone,
          is_catalog_product |-> FALSE, is_up_product |-> FALSE]

\* The mutant of extract_ids that checks each identifier independently,
\* without returning at the first match
extract_ids_NoEarlyReturn(permalink) ==
    IF permalink = "" THEN NoIds
    ELSE Bind(UP_ID_RE(permalink), LAMBDA up :
         Bind(PRODUCT_ID_RE(permalink), LAMBDA prod :
         Bind(ARTICULO_ITEM_ID_RE(permalink), LAMBDA art :
         Bind(ITEM_ID_RE(permalink), LAMBDA item :
            [item_id |-> IF art.found
                         THEN PyStr("MLM" \o Group(permalink, art, "/MLM-", 5))
                         ELSE IF item.found THEN PyStr(Group(permalink, item, "MLM", 0))
                         ELSE PyNone,
             product_id |-> IF prod.found THEN PyStr(Group(permalink, prod, "/p/MLM", 3))
                            ELSE PyNone,
             up_id |-> IF up.found THEN PyStr(Group(permalink, up, "/up/MLMU", 4))
                       ELSE PyNone,
             is_catalog_product |-> prod.found, is_up_product |-> up.found]))))

\* parsers.extract_ids(permalink)
extract_ids(permalink) ==
    IF permalink = "" THEN NoIds
    ELSE Bind(UP_ID_RE(permalink), LAMBDA up :
        IF up.found
        THEN [NoIds EXCEPT !.up_id = PyStr(Group(permalink, up, "/up/MLMU", 4)),
                           !.is_up_product = TRUE]
        ELSE Bind(PRODUCT_ID_RE(permalink), LAMBDA prod :
        IF prod.found
        THEN [NoIds EXCEPT !.product_id = PyStr(Group(permalink, prod, "/p/MLM", 3)),
                           !.is_catalog_product = TRUE]
        ELSE Bind(ARTICULO_ITEM_ID_RE(permalink), LAMBDA art :
        IF art.found
        THEN [NoIds EXCEPT !.item_id = PyStr("MLM" \o Group(permalink, art, "/MLM-", 5))]
        ELSE Bind(ITEM_ID_RE(permalink), LAMBDA item :
        IF item.found
        THEN [NoIds EXCEPT !.item_id = PyStr(Group(permalink, item, "MLM", 0))]
        ELSE Bind(FirstWid(UrlQuery(permalink)), LAMBDA wid :
        Bind(ITEM_ID_RE(wid), LAMBDA widm :
        IF wid # "" /\ widm.found /\ widm.at = 1
        THEN [NoIds EXCEPT !.item_id = PyStr(wid)]
        ELSE NoIds))))))

\* The mutant of compute_channel_item_id that prefers item_id to product_id
compute_channel_item_id_ItemFirst(item_id, product_id, up_id, permalink) ==
    IF Truthy(item_id) THEN <<item_id, "item_id">>
    ELSE IF Truthy(product_id) THEN <<product_id, "product_id">>
    ELSE IF Truthy(up_id) THEN <<up_id, "up_id">>
    ELSE IF permalink # "" THEN <<PyStr(Sha1Hex(permalink)), "hash">>
    ELSE <<PyStr(""), "hash">>

\* parsers.compute_channel_item_id(item_id, product_id, up_id, permalink)
compute_channel_item_id(item_id, product_id, up_id, permalink) ==
    IF Truthy(product_id) THEN <<product_id, "product_id">>
    ELSE IF Truthy(item_id) THEN <<item_id, "item_id">>
    ELSE IF Truthy(up_id) THEN <<up_id, "up_id">>
    ELSE IF permalink # "" THEN <<PyStr(Sha1Hex(permalink)), "hash">>
    ELSE <<PyStr(""), "hash">>

REFURBISHED_KEYWORDS == <<"reacondicionado", "reacondicionada">>

BUNDLE_KEYWORDS ==
    <<"de regalo", "+ airpods", "incluye airpods", "incluye airepods", "incluye regalo">>

LOCKED_KEYWORDS == <<"at&t", "telcel", "solo at&t", "solo telcel", "bloqueado", "locked">>

ACCESSORY_KEYWORDS ==
    <<"funda", "case", "mica", "protector", "cargador", "cable",
      "auricular", "audifonos", "headset", "speaker", "bocina",
      "adaptador", "hub", "dock", "stylus", "lapiz", "pencil",
      "strap", "correa", "brazo", "mount", "soporte", "holder",
      "skin", "cover", "wraps", "film", "tempered glass">>

\* The loop  for keyword in keywords: if keyword in text  finds a keyword
AnyKeyword(keywords, text) == \E i \in 1..Len(keywords) : Contains(text, keywords[i])

\* The three allow_* arguments of classify_filter and assemble_card
Toggles(r, b, l) == [allow_refurbished |-> r, allow_bundles |-> b, allow_locked |-> l]

\* What classify_filter returns: (filtered_out, filtered_reasons)
Filtered(code) == [filtered_out |-> TRUE, filtered_reasons |-> <<code>>]

NotFiltered == [filtered_out |-> FALSE, filtered_reasons |-> <<>>]

\* The mutant of classify_filter that collects the reason of every check
\* that matches instead of returning at the first
classify_filter_CollectAll(title, price_mxn, permalink, allow) ==
    Bind(IF title.t = "str" THEN Lower(title.s) ELSE "", LAMBDA title_lower :
    Bind((IF ~Truthy(title) \/ Len(Strip(title.s)) < 3 THEN <<"missing_title">> ELSE <<>>)
         \o (IF price_mxn.t = "none" \/ price_mxn.n <= 0 THEN <<"missing_price">> ELSE <<>>)
         \o (IF permalink = "" \/ ~Contains(Lower(permalink), "mercadolibre")
             THEN <<"invalid_url">> ELSE <<>>)
         \o (IF ~allow.allow_refurbished /\ AnyKeyword(REFURBISHED_KEYWORDS, title_lower)
             THEN <<"refurbished_not_allowed">> ELSE <<>>)
         \o (IF ~allow.allow_bundles /\ AnyKeyword(BUNDLE_KEYWORDS, title_lower)
             THEN <<"bundle_not_allowed">> ELSE <<>>)
         \o (IF ~allow.allow_locked /\ AnyKeyword(LOCKED_KEYWORDS, title_lower)
             THEN <<"carrier_locked_not_allowed">> ELSE <<>>)
         \o (IF AnyKeyword(ACCESSORY_KEYWORDS, title_lower)
             THEN <<"accessory_only">> ELSE <<>>), LAMBDA reasons :
        [filtered_out |-> reasons # <<>>, filtered_reasons |-> reasons]))

\* parsers.classify_filter(title, price_mxn, permalink, allow_refurbished,
\* allow_bundles, allow_locked), for a title that is a str or None and a
\* price that is a number or None
classify_filter(title, price_mxn, permalink, allow) ==
    IF ~Truthy(title) \/ Len(Strip(title.s)) < 3 THEN Filtered("missing_title")
    ELSE IF price_mxn.t = "none" \/ price_mxn.n <= 0 THEN Filtered("missing_price")
    ELSE IF permalink = "" \/ ~Contains(Lower(permalink), "mercadolibre")
         THEN Filtered("invalid_url")
    ELSE Bind(Lower(title.s), LAMBDA title_lower :
         IF ~allow.allow_refurbished /\ AnyKeyword(REFURBISHED_KEYWORDS, title_lower)
         THEN Filtered("refurbished_not_allowed")
         ELSE IF ~allow.allow_bundles /\ AnyKeyword(BUNDLE_KEYWORDS, title_lower)
              THEN Filtered("bundle_not_allowed")
         ELSE IF ~allow.allow_locked /\ AnyKeyword(LOCKED_KEYWORDS, title_lower)
              THEN Filtered("carrier_locked_not_allowed")
         ELSE IF AnyKeyword(ACCESSORY_KEYWORDS, title_lower) THEN Filtered("accessory_only")
         ELSE NotFiltered)

\* The mutant of the crawl-time compute_needs_enrichment that does not look
\* at the seller
parsers_compute_needs_enrichment_IgnoreSeller(item_id, seller_id, is_catalog_product, is_up_product) ==
    IF item_id.t = "none" THEN TRUE
    ELSE IF is_catalog_product THEN TRUE
    ELSE IF is_up_product THEN TRUE
    ELSE FALSE

\* parsers.compute_needs_enrichment(item_id, seller_id, is_catalog_product,
\* is_up_product), the crawl-time gate
parsers_compute_needs_enrichment(item_id, seller_id, is_catalog_product, is_up_product) ==
    IF item_id.t = "none" THEN TRUE
    ELSE IF seller_id.t = "none" THEN TRUE
    ELSE IF is_catalog_product THEN TRUE
    ELSE IF is_up_product THEN TRUE
    ELSE FALSE

\* permalink.split("#")[0]
BeforeFragment(permalink) ==
    Bind(Find(permalink, "#"), LAMBDA h :
        IF h = 0 THEN permalink ELSE SubSeq(permalink, 1, h - 1))

\* The card assemble_card builds from the results of its three layers
AssembledCard(a, ids, key, needs_enrichment, filter) ==
    [permalink |-> BeforeFragment(a.permalink), title |-> a.title,
     item_id |-> ids.item_id, product_id |-> ids.product_id, up_id |-> ids.up_id,
     channel_item_id |-> key[1], id_source |-> key[2],
     seller_id |-> a.seller_id, price_mxn |-> a.price_mxn, currency |-> a.currency,
     needs_enrichment |-> needs_enrichment,
     filtered_out |-> filter.filtered_out, filtered_reasons |-> filter.filtered_reasons]

\* The mutant of assemble_card that filters out a card that needs enrichment
assemble_card_FilterIncomplete(a) ==
    Bind(extract_ids(a.permalink), LAMBDA ids :
    Bind(parsers_compute_needs_enrichment(ids.item_id, a.seller_id, ids.is_catalog_product,
                                          ids.is_up_product), LAMBDA needs_enrichment :
    Bind(classify_filter(a.title, a.price_mxn, a.permalink, a.allow), LAMBDA filter :
        AssembledCard(a, ids,
            compute_channel_item_id(ids.item_id, ids.product_id, ids.up_id, a.permalink),
            needs_enrichment,
            IF needs_enrichment /\ ~filter.filtered_out
            THEN Filtered("needs_enrichment") ELSE filter))))

\* parsers.assemble_card(permalink, title, price_mxn, currency, seller_id,
\* allow_refurbished, allow_bundles, allow_locked), the arguments as a record
assemble_card(a) ==
    Bind(extract_ids(a.permalink), LAMBDA ids :
    Bind(parsers_compute_needs_enrichment(ids.item_id, a.seller_id, ids.is_catalog_product,
                                          ids.is_up_product), LAMBDA needs_enrichment :
    Bind(classify_filter(a.title, a.price_mxn, a.permalink, a.allow), LAMBDA filter :
        AssembledCard(a, ids,
            compute_channel_item_id(ids.item_id, ids.product_id, ids.up_id, a.permalink),
            needs_enrichment, filter))))

\* ------------------------------------------------------------------------
\* Listing transformer (export_sell_listings.py)
\* ------------------------------------------------------------------------
\* _PRODUCT_ID_RE = /p/(MLM\d+), re.IGNORECASE
X_PRODUCT_ID_RE(s) == ReSearch(s, "/p/MLM", 1, Len(s), TRUE)

\* _UP_ID_RE = /up/(MLMU\d+), re.IGNORECASE
X_UP_ID_RE(s) == ReSearch(s, "/up/MLMU", 1, Len(s), TRUE)

\* _ITEM_ID_RE = (MLM\d{6,15}), re.IGNORECASE
X_ITEM_ID_RE(s) == ReSearch(s, "MLM", 6, 15, TRUE)

\* _ARTICULO_ITEM_ID_RE = /MLM-(\d{6,15})
X_ARTICULO_ITEM_ID_RE(s) == ReSearch(s, "/MLM-", 6, 15, FALSE)

SKIP_MISSING_IDENTITY  == "missing_identity"

SKIP_MISSING_PRICE     == "missing_price"

SKIP_NEEDS_ENRICHMENT  == "needs_enrichment_true"

SKIP_MISSING_PERMALINK == "missing_permalink"

SKIP_INVALID_CURRENCY  == "invalid_currency"

SKIP_INVALID_PAYLOAD   == "invalid_payload"

IdSources == {"product_id", "up_id", "item_id", "hash"}

\* The three ids of extract_identity: the card's own, or, when the card has
\* none and has a permalink, the first the permalink yields
IdentityIds(card, permalink) ==
    Bind([product_id |-> PyOr(Get(card, "product_id"), PyNone),
          up_id |-> PyOr(Get(card, "up_id"), PyNone),
          item_id |-> PyOr(Get(card, "item_id"), PyNone)], LAMBDA given :
        IF Truthy(given.product_id) \/ Truthy(given.up_id) \/ Truthy(given.item_id)
           \/ permalink = ""
        THEN given
        ELSE Bind(X_UP_ID_RE(permalink), LAMBDA up :
        IF up.found
        THEN [given EXCEPT !.up_id = PyStr(Group(permalink, up, "/up/MLMU", 4))]
        ELSE Bind(X_PRODUCT_ID_RE(permalink), LAMBDA prod :
        IF prod.found
        THEN [given EXCEPT !.product_id = PyStr(Group(permalink, prod, "/p/MLM", 3))]
        ELSE Bind(X_ARTICULO_ITEM_ID_RE(permalink), LAMBDA art :
        IF art.found
        THEN [given EXCEPT !.item_id = PyStr("MLM" \o Group(permalink, art, "/MLM-", 5))]
        ELSE Bind(X_ITEM_ID_RE(permalink), LAMBDA item :
        IF item.found
        THEN [given EXCEPT !.item_id = PyStr(Group(permalink, item, "MLM", 0))]
        ELSE given)))))

\* extract_identity(card); exc = TRUE stands for the AttributeError of
\* .strip() on a value that is not a str
extract_identity(card) ==
    Bind(PyOr(Get(card, "permalink"), PyStr("")), LAMBDA pl_raw :
    Bind(PyOr(Get(card, "channel_item_id"), PyStr("")), LAMBDA pre_raw :
    Bind(PyOr(Get(card, "id_source"), PyStr("hash")), LAMBDA src_raw :
        IF pl_raw.t # "str" \/ pre_raw.t # "str" \/ src_raw.t # "str"
        THEN [exc |-> TRUE, product_id |-> PyNone, up_id |-> PyNone, item_id |-> PyNone,
              channel_item_id |-> PyStr(""), id_source |-> "hash"]
        ELSE Bind(Strip(pl_raw.s), LAMBDA permalink :
             Bind(IdentityIds(card, permalink), LAMBDA ids :
             Bind(Strip(pre_raw.s), LAMBDA pre_computed :
             Bind(Strip(src_raw.s), LAMBDA pre_source :
             Bind(IF pre_computed # "" /\ pre_source \in IdSources
                  THEN <<PyStr(pre_computed), pre_source>>
                  ELSE IF Truthy(ids.product_id) THEN <<ids.product_id, "product_id">>
                  ELSE IF Truthy(ids.up_id) THEN <<ids.up_id, "up_id">>
                  ELSE IF Truthy(ids.item_id) THEN <<ids.item_id, "item_id">>
                  ELSE IF permalink # "" THEN <<PyStr(Sha1Hex(permalink)), "hash">>
                  ELSE <<PyStr(""), "hash">>, LAMBDA key :
                 [exc |-> FALSE, product_id |-> ids.product_id, up_id |-> ids.up_id,
                  item_id |-> ids.item_id, channel_item_id |-> key[1],
                  id_source |-> key[2]]))))))))

\* The mutant of parse_channel_item_id that knows the two segments only
parse_channel_item_id_SegmentsOnly(permalink) ==
    IF permalink = "" THEN ""
    ELSE Bind(X_PRODUCT_ID_RE(permalink), LAMBDA prod :
         IF prod.found THEN Group(permalink, prod, "/p/MLM", 3)
         ELSE Bind(X_UP_ID_RE(permalink), LAMBDA up :
         IF up.found THEN Group(permalink, up, "/up/MLMU", 4)
         ELSE Sha1Hex(permalink)))

\* parse_channel_item_id(permalink), the legacy helper: /p/ id, /up/ id,
\* dashed item id, bare item id, SHA-1 of the permalink
parse_channel_item_id(permalink) ==
    IF permalink = "" THEN ""
    ELSE Bind(X_PRODUCT_ID_RE(permalink), LAMBDA prod :
         IF prod.found THEN Group(permalink, prod, "/p/MLM", 3)
         ELSE Bind(X_UP_ID_RE(permalink), LAMBDA up :
         IF up.found THEN Group(permalink, up, "/up/MLMU", 4)
         ELSE Bind(X_ARTICULO_ITEM_ID_RE(permalink), LAMBDA art :
         IF art.found THEN "MLM" \o Group(permalink, art, "/MLM-", 5)
         ELSE Bind(X_ITEM_ID_RE(permalink), LAMBDA item :
         IF item.found THEN Group(permalink, item, "MLM", 0)
         ELSE Sha1Hex(permalink)))))

\* The mutant of compute_needs_enrichment that does not look at the price
compute_needs_enrichment_IgnorePrice(card) ==
    Bind(JsonOrNone(Get(card, "attributes")), LAMBDA attributes :
        LET pipeline_flag == Get(card, "needs_enrichment")
        IN  IF attributes.t = "dict" /\ DictGetTruthy(attributes, "jsonld") THEN FALSE
            ELSE IF pipeline_flag.t = "bool" /\ pipeline_flag.n = 0 THEN FALSE
            ELSE TRUE)

\* export-module compute_needs_enrichment(card)
compute_needs_enrichment(card) ==
    Bind(JsonOrNone(Get(card, "attributes")), LAMBDA attributes :
        LET pipeline_flag == Get(card, "needs_enrichment")
            price == PyOr(Get(card, "price_mxn"), Get(card, "price"))
        IN  IF attributes.t = "dict" /\ DictGetTruthy(attributes, "jsonld") THEN FALSE
            ELSE IF pipeline_flag.t = "bool" /\ pipeline_flag.n = 0 THEN FALSE
            ELSE IF price.t # "none" THEN FALSE
            ELSE TRUE)

\* The keys of a card, in the order card.items() yields them
CardFields == <<"permalink", "url", "item_url", "detail_url", "title", "price_mxn",
                "price", "currency", "product_id", "up_id", "item_id",
                "channel_item_id", "id_source", "attributes", "needs_enrichment",
                "pictures", "captured_at_utc">>

FieldNames == {CardFields[i] : i \in 1..Len(CardFields)}

\* _now_utc() and today's date: the clock does not advance in this model
NowUtc == "2026-02-23T18:55:31Z"

Today  == "2026-02-23"

\* The test of the loop that recovers a permalink from any URL-like field
IsMlUrl(v) ==
    /\ v.t = "str"
    /\ Contains(Lower(v.s), "mercadolibre")
    /\ (Contains(v.s, "/MLM") \/ Contains(v.s, "/p/") \/ Contains(v.s, "/up/"))

\* The permalink transform_to_sell_listing resolves: the first truthy of the
\* four URL fields, stripped, else the first URL-like string field.
\* exc = TRUE: the first truthy field is not a str.
ResolvePermalink(card) ==
    Bind(PyOr(PyOr(PyOr(PyOr(Get(card, "permalink"), Get(card, "url")),
                        Get(card, "item_url")), Get(card, "detail_url")),
              PyStr("")), LAMBDA chain :
    Bind(Strip(chain.s), LAMBDA stripped :
    Bind({i \in 1..Len(CardFields) : IsMlUrl(card[CardFields[i]])}, LAMBDA hits :
        IF chain.t # "str" THEN [exc |-> TRUE, s |-> ""]
        ELSE IF stripped # "" THEN [exc |-> FALSE, s |-> stripped]
        ELSE IF hits = {} THEN [exc |-> FALSE, s |-> ""]
        ELSE [exc |-> FALSE, s |-> Strip(card[CardFields[SetMin(hits)]].s)])))

\* round(x / d) to the nearest integer, ties to even: Python's round() on the
\* exact quotient
RoundDiv(x, d) ==
    LET a == IF x < 0 THEN 0 - x ELSE x
        q == a \div d
        r == a % d
        n == IF 2 * r > d \/ (2 * r = d /\ q % 2 = 1) THEN q + 1 ELSE q
    IN  IF x < 0 THEN 0 - n ELSE n

\* The mutant of SellPriceUsd that rounds to 2 decimals
SellPriceUsd_TwoDecimals(price_mxn, fx_rate) ==
    IF price_mxn.nan THEN NaN ELSE Fin(10000 * RoundDiv(price_mxn.m * fx_rate, 1000000))

\* round(price_mxn * fx_rate, 6): thousandths times 1/100000 is 10^-8, the
\* result is in millionths
SellPriceUsd(price_mxn, fx_rate) ==
    IF price_mxn.nan THEN NaN ELSE Fin(RoundDiv(price_mxn.m * fx_rate, 100))

\* The conversion of the capture timestamp to the SQL Server format
ListingTimestamp(captured_at_utc) ==
    IF EndsWith(captured_at_utc, "Z")
    THEN Bind(Replace(Replace(captured_at_utc, "Z", ""), "T", " "), LAMBDA t :
            IF Contains(t, ".") THEN t ELSE t \o ".000000")
    ELSE IF Contains(captured_at_utc, "T") THEN Replace(captured_at_utc, "T", " ")
    ELSE captured_at_utc

\* pictures as the image step reads it: card.get("pictures") or [], a str
\* JSON-decoded or wrapped in a list
PicturesOf(card) ==
    Bind(PyOr(Get(card, "pictures"), PyList("[]")), LAMBDA p0 :
        IF p0.t # "str" THEN p0
        ELSE Bind(JsonLoads(p0.s), LAMBDA j :
                IF j.ok THEN j.v ELSE PyList("[\"" \o p0.s \o "\"]")))

\* attributes as emitted: the dict, JSON-decoded when it came as a str, or None
AttributesOf(card) ==
    Bind(JsonOrNone(Get(card, "attributes")), LAMBDA dec :
        IF dec.t = "dict" THEN dec ELSE PyNone)

NoListing ==
    [action |-> 0, channel |-> "", market |-> "", channelItemId |-> PyNone, title |-> "",
     sellPriceOriginal |-> NaN, currencyOriginal |-> "", sellPriceUsd |-> NaN,
     fxRateToUsd |-> 0, fxAsOfDate |-> "", listingTimestamp |-> "",
     fulfillmentType |-> PyNone, shippingTimeDays |-> PyNone, unifiedProductId |-> PyNone,
     itemId |-> PyNone, upId |-> PyNone, permalink |-> "", image |-> PyNone,
     capturedAtUtc |-> "", attributes |-> PyNone]

\* The three ways transform_to_sell_listing ends: (listing, None),
\* (None, code), or an exception that leaves the function
Emitted(l)  == [kind |-> "listing", code |-> "", listing |-> l]

Skipped(c)  == [kind |-> "skip", code |-> c, listing |-> NoListing]

Raised      == [kind |-> "raise", code |-> "", listing |-> NoListing]

\* The validation pipeline found nothing to reject
Passed      == [kind |-> "pass", code |-> "", listing |-> NoListing]

\* card.get("title") or ""
TitleRaw(card) == PyOr(Get(card, "title"), PyStr(""))

\* price_raw = card.get("price_mxn") or card.get("price")
PriceRaw(card) == PyOr(Get(card, "price_mxn"), Get(card, "price"))

\* card.get("currency") or "MXN"
CurrencyRaw(card) == PyOr(Get(card, "currency"), PyStr("MXN"))

\* The channel key after the fallback that re-extracts the ids from the
\* permalink when extract_identity left the key empty
ChannelItemId(identity, permalink) ==
    IF ~Truthy(identity.channel_item_id) /\ permalink # ""
    THEN Bind(extract_ids(permalink), LAMBDA ids :
            IF Truthy(ids.product_id) THEN ids.product_id
            ELSE IF Truthy(ids.up_id) THEN ids.up_id
            ELSE IF Truthy(ids.item_id) THEN ids.item_id
            ELSE PyStr(Sha1Hex(permalink)))
    ELSE identity.channel_item_id

\* The six checks of transform_to_sell_listing, each with the exception it
\* can raise
PermalinkCheck(card) ==
    Bind(ResolvePermalink(card), LAMBDA pl :
        IF pl.exc THEN Raised
        ELSE IF pl.s = "" THEN Skipped(SKIP_MISSING_PERMALINK)
        ELSE Passed)

TitleCheck(card) ==
    Bind(TitleRaw(card), LAMBDA title_raw :
    Bind(Strip(title_raw.s), LAMBDA title :
        IF title_raw.t # "str" THEN Raised
        ELSE IF title = "" \/ Len(title) < 3 THEN Skipped(SKIP_INVALID_PAYLOAD)
        ELSE Passed))

PriceCheck(card) ==
    Bind(PriceRaw(card), LAMBDA price_raw :
    Bind(ToFloat(price_raw), LAMBDA price :
        IF price_raw.t = "none" THEN Skipped(SKIP_MISSING_PRICE)
        ELSE IF ~price.ok THEN Skipped(SKIP_MISSING_PRICE)
        ELSE IF ~price.f.nan /\ price.f.m <= 0 THEN Skipped(SKIP_MISSING_PRICE)
        ELSE Passed))

CurrencyCheck(card) ==
    Bind(CurrencyRaw(card), LAMBDA currency_raw :
        IF currency_raw.t # "str" THEN Raised
        ELSE IF Upper(currency_raw.s) # "MXN" THEN Skipped(SKIP_INVALID_CURRENCY)
        ELSE Passed)

IdentityCheck(card) ==
    Bind(extract_identity(card), LAMBDA identity :
        IF identity.exc THEN Raised
        ELSE IF ~Truthy(ChannelItemId(identity, ResolvePermalink(card).s))
             THEN Skipped(SKIP_MISSING_IDENTITY)
        ELSE Passed)

EnrichmentCheck(card) ==
    IF compute_needs_enrichment(card) THEN Skipped(SKIP_NEEDS_ENRICHMENT) ELSE Passed

\* Sequencing of two checks: the second is reached only when the first passes
Then(first, second) == IF first.kind = "pass" THEN second ELSE first

\* The mutant of ValidateCard that checks the price before the title
ValidateCard_PriceBeforeTitle(card) ==
    Then(PermalinkCheck(card), Then(PriceCheck(card), Then(TitleCheck(card),
    Then(CurrencyCheck(card), Then(IdentityCheck(card), EnrichmentCheck(card))))))

\* The validation pipeline of transform_to_sell_listing, up to the
\* enrichment gate: the first check that rejects the card decides
ValidateCard(card) ==
    Then(PermalinkCheck(card), Then(TitleCheck(card), Then(PriceCheck(card),
    Then(CurrencyCheck(card), Then(IdentityCheck(card), EnrichmentCheck(card))))))

\* transform_to_sell_listing(card, fx_rate).  The rating, reviewsCount, brand
\* and condition outputs, which no check reads and which cannot fail, are not
\* carried by the model's listing.
transform_to_sell_listing(card, fx_rate) ==
    Bind(ValidateCard(card), LAMBDA checked :
    IF checked.kind # "pass" THEN checked
    ELSE Bind(PicturesOf(card), LAMBDA pictures :
    IF Truthy(pictures) /\ pictures.t \notin {"list", "str"} THEN Raised
    ELSE Bind(PyOr(Get(card, "captured_at_utc"), PyStr(NowUtc)), LAMBDA cap_raw :
    IF cap_raw.t # "str" THEN Raised
    ELSE Bind(ResolvePermalink(card).s, LAMBDA permalink :
         Bind(extract_identity(card), LAMBDA identity :
         Bind(ToFloat(PriceRaw(card)).f, LAMBDA price_mxn :
         Emitted(
            [action |-> 1, channel |-> "mercadolibre", market |-> "MLM",
             channelItemId |-> ChannelItemId(identity, permalink),
             title |-> Strip(TitleRaw(card).s),
             sellPriceOriginal |-> price_mxn,
             currencyOriginal |-> Upper(CurrencyRaw(card).s),
             sellPriceUsd |-> SellPriceUsd(price_mxn, fx_rate),
             fxRateToUsd |-> fx_rate, fxAsOfDate |-> Today,
             listingTimestamp |-> ListingTimestamp(cap_raw.s),
             fulfillmentType |-> PyNone, shippingTimeDays |-> PyNone,
             unifiedProductId |-> PyNone,
             itemId |-> identity.item_id, upId |-> identity.up_id,
             permalink |-> permalink,
             image |-> IF ~Truthy(pictures) THEN PyNone
                       ELSE IF pictures.t = "list" THEN ListHead(pictures)
                       ELSE PyStr(Ch(pictures.s, 1)),
             capturedAtUtc |-> cap_raw.s, attributes |-> AttributesOf(card)])))))))

\* ------------------------------------------------------------------------
\* Sample data
\* ------------------------------------------------------------------------
P_CATALOG  == "https://www.mercadolibre.com.mx/jabon/p/MLM32624978"

P_UP       == "https://www.mercadolibre.com.mx/urna/up/MLMU3674594112"

P_ARTICULO == "https://articulo.mercadolibre.com.mx/MLM-1373603054-placa-_JM"

P_NOID     == "https://www.mercadolibre.com.mx/ofertas"

\* A catalog URL as a lower-casing caller hands it on
P_LOWER    == "https://www.mercadolibre.com.mx/jabon/p/mlm32624978"

EmptyCard == [f \in FieldNames |-> PyAbsent]

\* A card as the scrape tools emit it for a catalog page
CatalogCard ==
    [EmptyCard EXCEPT !["permalink"] = PyStr(P_CATALOG),
                      !["title"] = PyStr("Jabon Roma 1 kg"),
                      !["price_mxn"] = PyNum(100000),
                      !["currency"] = PyStr("MXN"),
                      !["captured_at_utc"] = PyStr("2026-02-19T00:59:55Z")]

\* The values a test of the transformer gives each field of a card
FieldValues(f) ==
    CASE f = "permalink" ->
            {PyAbsent, PyNone, PyStr(""), PyStr("  "), PyStr(P_CATALOG), PyStr(P_ARTICULO),
             PyStr(P_NOID), PyStr(P_LOWER), PyNum(5000)}
      [] f = "url" -> {PyAbsent, PyStr(P_UP), PyStr(P_NOID), PyList("[1]")}
      [] f = "item_url" -> {PyAbsent, PyStr(P_ARTICULO)}
      [] f = "detail_url" -> {PyAbsent, PyStr(P_CATALOG)}
      [] f = "title" ->
            {PyAbsent, PyNone, PyStr("ab"), PyStr("  abc "), PyStr("Jabon Roma 1 kg"),
             PyStr("ver " \o P_UP), PyNum(7000)}
      [] f = "price_mxn" ->
            {PyAbsent, PyNone, PyNum(0), PyNum(-1000), PyNum(10), PyNum(1), PyNum(100000),
             PyStr("42.37"), PyStr("gratis"), PyStr("nan"), PyList("[100]")}
      [] f = "price" -> {PyAbsent, PyNum(0), PyNum(50000), PyBool(FALSE)}
      [] f = "currency" ->
            {PyAbsent, PyNone, PyStr("MXN"), PyStr("mxn"), PyStr("USD"), PyStr(" MXN"),
             PyNum(1000)}
      [] f = "product_id" -> {PyAbsent, PyStr("MLM99887766"), PyNum(7000)}
      [] f = "up_id" -> {PyAbsent, PyStr("MLMU55443322")}
      [] f = "item_id" -> {PyAbsent, PyStr("MLM1373603054")}
      [] f = "channel_item_id" ->
            {PyAbsent, PyStr("MLM11223344"), PyStr(Sha1Hex("")), PyStr("  "), PyNum(9000)}
      [] f = "id_source" ->
            {PyAbsent, PyStr("item_id"), PyStr("llm"), PyNum(1000)}
      [] f = "attributes" ->
            {PyAbsent, PyDict("{}"), PyDict("{\"jsonld\":{\"name\":\"x\"}}"),
             PyStr("{\"jsonld\":{\"name\":\"x\"}}"), PyStr("{jsonld")}
      [] f = "needs_enrichment" -> {PyAbsent, PyBool(TRUE), PyBool(FALSE)}
      [] f = "pictures" ->
            {PyAbsent, PyList("[\"a.jpg\",\"b.jpg\"]"), PyStr("[\"a.jpg\"]"), PyStr("a.jpg"),
             PyStr("{\"url\":\"a.jpg\"}"), PyDict("{\"url\":\"a.jpg\"}"), PyNum(3000)}
      [] f = "captured_at_utc" ->
            {PyAbsent, PyStr("2026-02-19T00:59:55Z"), PyStr("2026-02-19T00:59:55.120000"),
             PyNum(1000)}

\* The rates a test passes in (unit 1/100000): negative, zero, 0.00001 and the
\* documented 0.05842
FxRates == {-5842, 0, 1, 5842}

\* How many fields of a base card one test changes
MaxEdits == 2

\* Cards as the pipeline hands them to the export: a catalog page, an articulo
\* listing with the identity fields the card assembler sets, a second card of
\* the same catalog page, a card without a price, a card whose title is a
\* number, and a card without any URL
ArticuloCard ==
    [EmptyCard EXCEPT !["permalink"] = PyStr(P_ARTICULO),
                      !["title"] = PyStr("Placa tubo OEM"),
                      !["price_mxn"] = PyNum(42370),
                      !["currency"] = PyStr("MXN"),
                      !["item_id"] = PyStr("MLM1373603054"),
                      !["channel_item_id"] = PyStr("MLM1373603054"),
                      !["id_source"] = PyStr("item_id"),
                      !["needs_enrichment"] = PyBool(TRUE)]

CatalogCardAgain ==
    [CatalogCard EXCEPT !["title"] = PyStr("Jabon Roma 1 kg (2)"),
                        !["price_mxn"] = PyNum(99000)]

NoPriceCard ==
    [EmptyCard EXCEPT !["permalink"] = PyStr(P_UP), !["title"] = PyStr("Urna de acrilico")]

BadTitleCard == [CatalogCard EXCEPT !["title"] = PyNum(15000)]

NoLinkCard == [EmptyCard EXCEPT !["title"] = PyStr("Sin enlace"), !["price_mxn"] = PyNum(10)]

SampleCards ==
    {CatalogCard, ArticuloCard, NoPriceCard, BadTitleCard, NoLinkCard}

\* Longest card list passed to one export
MaxCards == 2

\* All sequences over S of length at most n
RECURSIVE SeqsUpTo(_, _)
SeqsUpTo(S, n) ==
    IF n = 0 THEN {<<>>}
    ELSE LET shorter == SeqsUpTo(S, n - 1)
         IN  shorter \cup {Append(q, x) : q \in {r \in shorter : Len(r) = n - 1}, x \in S}

\* The card lists of an export: the lists of sample cards, and the catalog
\* card followed by its second capture
CardLists == SeqsUpTo(SampleCards, MaxCards) \cup {<<CatalogCard, CatalogCardAgain>>}

\* The card lists of the two concurrent invocations
ConcurrentCardLists ==
    {<<CatalogCard, ArticuloCard>>, <<CatalogCardAgain, NoPriceCard>>, <<ArticuloCard>>}

\* ------------------------------------------------------------------------
\* Program constants
\* ------------------------------------------------------------------------
\* _query_existing_with_retry(max_attempts=5)
MaxAttempts == 5

\* query_sell_listings: stop_after_attempt(3)
QueryStopAfter == 3

\* post_sell_listings: stop_after_attempt(5)
PostStopAfter == 5

\* _query_existing_with_retry(base_delay=2.0), in seconds
BaseDelay == 2

\* _query_existing_with_retry asks for page 1 with page_size=500
PageSize == 500

\* The rate load_settings() obtains (0.05842)
LoadableFxRates == {5842}

\* ------------------------------------------------------------------------
\* State
\* ------------------------------------------------------------------------
VARIABLES
    tbase,      \* transformer test: the card the test started from
    tcard,      \* transformer test: the card passed to transform_to_sell_listing
    tfx,        \* transformer test: the fx_rate passed in
    tres,       \* transformer test: what the call returned, kind "none" before it
    tpayload,   \* transformer test: what build_sell_listings_payload returned
    pcall,      \* resolver test: the latest call of a parsers.py function
    pprev,      \* resolver test: the call before it
    http,       \* fetch test: the HTTP client call in progress
    cards,      \* the card list both export invocations are called with
    store,      \* the remote store's rows for mercadolibre/MLM: the set of
                \* channel keys it holds, the number of further rows whose
                \* keys are none of the cards', and the keys that lie among
                \* its first PageSize rows
    store0,     \* the store's rows before the first invocation began
    fx_rate_cache,  \* settings._fx_rate_cache
    inv         \* the export_sell_listings invocations: locals and position

tvars == <<tbase, tcard, tfx, tres, tpayload>>

pvars == <<pcall, pprev>>

hvars == <<http>>

xvars == <<cards, store, store0, fx_rate_cache, inv>>

vars == <<tbase, tcard, tfx, tres, tpayload, pcall, pprev, http,
          cards, store, store0, fx_rate_cache, inv>>

NotRun == [kind |-> "none", code |-> "", listing |-> NoListing]

EmptyDict == [c \in {} |-> 0]

\* build_sell_listings_payload has not been called
NoPayload ==
    [kind |-> "none", sellListings |-> <<>>, skipped |-> 0, skip_reasons |-> EmptyDict]

NoCall == [fn |-> "none"]

NoHttp == [op |-> "none"]

BaseCards == {EmptyCard, CatalogCard}

\* Number of fields in which a card differs from the card the test started from
Edits(card, base) == Cardinality({f \in FieldNames : card[f] # base[f]})

Invocations == {1, 2}

NoResponse == [kind |-> "none", keys |-> {}, others |-> 0]

NoOutcome ==
    [ok |-> FALSE, as_of |-> "", existing_count |-> 0, new_count |-> 0, skipped |-> 0,
     skip_reasons |-> EmptyDict]

\* An invocation that has not been called yet
Idle ==
    [pc |-> "idle", fx_rate |-> 0, sell_listings |-> <<>>, skip_reasons |-> EmptyDict,
     skipped |-> 0, attempt |-> 0, tries |-> 0, slept |-> 0, resp |-> NoResponse,
     existing_ids |-> {}, existing_count |-> 0, new_listings |-> <<>>, new_count |-> 0,
     query_done |-> FALSE, query_end |-> "", posted |-> FALSE, payload |-> <<>>,
     outcome |-> NoOutcome]

NoCache == [set |-> FALSE, rate |-> 0]

\* ------------------------------------------------------------------------
\* Export engine (export_sell_listings.py, backend_api.py)
\* ------------------------------------------------------------------------
\* The mutant of Bump that restarts the count of a reason at each skip
Bump_Restart(d, k) == IF k \in DOMAIN d THEN [d EXCEPT ![k] = 1] ELSE d @@ (k :> 1)

\* skip_reasons[reason] = skip_reasons.get(reason, 0) + 1
Bump(d, k) == IF k \in DOMAIN d THEN [d EXCEPT ![k] = @ + 1] ELSE d @@ (k :> 1)

\* Step 1, the loop over the cards; raised = TRUE when a transform raised and
\* the exception left export_sell_listings
RECURSIVE Step1(_, _, _)
Step1(cs, fx, acc) ==
    IF cs = <<>> THEN acc
    ELSE LET r == transform_to_sell_listing(Head(cs), fx)
         IN  IF r.kind = "raise" THEN [acc EXCEPT !.raised = TRUE]
             ELSE IF r.kind = "skip"
                  THEN Step1(Tail(cs), fx,
                             [acc EXCEPT !.skip_reasons =
                                             Bump(@, IF r.code = "" THEN SKIP_INVALID_PAYLOAD
                                                                    ELSE r.code),
                                         !.skipped = @ + 1])
                  ELSE Step1(Tail(cs), fx,
                             [acc EXCEPT !.sell_listings = Append(@, r.listing)])

TransformCards(cs, fx) ==
    Step1(cs, fx, [raised |-> FALSE, sell_listings |-> <<>>, skip_reasons |-> EmptyDict,
                   skipped |-> 0])

\* The loop of build_sell_listings_payload over the items; each emitted
\* listing gets listingTimestamp = item.get("captured_at_utc") or the run's
\* timestamp
RECURSIVE PayloadLoop(_, _, _)
PayloadLoop(items, fx, acc) ==
    IF items = <<>> THEN acc
    ELSE Bind(transform_to_sell_listing(Head(items), fx), LAMBDA r :
         IF r.kind = "raise" THEN [acc EXCEPT !.kind = "raise"]
         ELSE IF r.kind = "skip"
              THEN PayloadLoop(Tail(items), fx,
                     [acc EXCEPT !.skip_reasons =
                                     Bump(@, IF r.code = "" THEN SKIP_INVALID_PAYLOAD
                                                            ELSE r.code),
                                 !.skipped = @ + 1])
              ELSE PayloadLoop(Tail(items), fx,
                     [acc EXCEPT !.sellListings =
                        Append(@, [r.listing EXCEPT !.listingTimestamp =
                                      PyOr(Get(Head(items), "captured_at_utc"),
                                           PyStr(NowUtc)).s])]))

\* build_sell_listings_payload(items, fx_rate_to_usd) without run_timestamp:
\* the "sellListings" list and the "skipped" count and "skip_reasons" of the
\* dict it returns,
\* kind "raise" when a transform raised
build_sell_listings_payload(items, fx_rate_to_usd) ==
    PayloadLoop(items, fx_rate_to_usd,
                [kind |-> "payload", sellListings |-> <<>>, skipped |-> 0,
                 skip_reasons |-> EmptyDict])

\* The mutant of NewListings that keeps the listings the store already holds
NewListings_Existing(sell_listings, existing_ids) ==
    SelectSeq(sell_listings, LAMBDA sl : sl.channelItemId \in existing_ids)

\* The mutant of NewListings that keeps every listing
NewListings_KeepAll(sell_listings, existing_ids) == sell_listings

\* Step 3: new_listings = [sl for sl in sell_listings
\*                         if sl["channelItemId"] not in existing_ids]
NewListings(sell_listings, existing_ids) ==
    SelectSeq(sell_listings, LAMBDA sl : sl.channelItemId \notin existing_ids)

\* The dict export_sell_listings returns
Outcome(r, ok) ==
    [ok |-> ok, as_of |-> NowUtc, existing_count |-> r.existing_count,
     new_count |-> r.new_count, skipped |-> r.skipped, skip_reasons |-> r.skip_reasons]

\* The sets of card keys that can lie among the first PageSize rows of a
\* store, in whatever order the store keeps its rows
FirstPages(keys, other) ==
    LET total == Cardinality(keys) + other
        size  == IF total < PageSize THEN total ELSE PageSize
    IN  {S \in SUBSET keys : size - Cardinality(S) \in 0..other}

\* The store's answer to query(page=1, page_size=500): its first PageSize rows
Page(st) ==
    LET total == Cardinality(st.keys) + st.other
        size  == IF total < PageSize THEN total ELSE PageSize
    IN  [keys |-> st.first, others |-> size - Cardinality(st.first)]

\* The stores an upsert keyed by channelItemId can leave: one row per key,
\* the rows in an order of the store's choosing
Upsert(st, listings) ==
    LET keys == st.keys \cup {listings[j].channelItemId : j \in 1..Len(listings)}
    IN  {[keys |-> keys, other |-> st.other, first |-> F] : F \in FirstPages(keys, st.other)}

\* load_settings() followed by step 1.  _load_fx_rate serves the cached rate,
\* or obtains one and caches it, or raises ValueError.
Begin(i) ==
    /\ inv[i].pc = "idle"
    /\ \E rate \in (IF fx_rate_cache.set THEN {fx_rate_cache.rate} ELSE LoadableFxRates),
          loaded \in BOOLEAN :
          /\ fx_rate_cache.set => loaded
          /\ fx_rate_cache' = IF loaded THEN [set |-> TRUE, rate |-> rate] ELSE fx_rate_cache
          /\ LET t == TransformCards(cards, rate)
             IN  inv' = [inv EXCEPT ![i] =
                    IF ~loaded \/ t.raised
                    THEN [@ EXCEPT !.pc = "raised"]
                    ELSE [@ EXCEPT !.pc = "query", !.fx_rate = rate,
                                   !.sell_listings = t.sell_listings,
                                   !.skip_reasons = t.skip_reasons,
                                   !.skipped = t.skipped,
                                   !.attempt = 1, !.tries = 1]]
    /\ UNCHANGED <<tvars, pvars, hvars, cards, store, store0>>

\* client.query_sell_listings issues POST /query_sellListings and the backend
\* answers: a page of rows; a 200 whose body is not JSON or lacks the
\* sellListingsQuery key; a 200 whose JSON is not an object; or a
\* requests.RequestException (429, 5xx, raise_for_status on another 4xx, or
\* a network error)
QueryRequest(i) ==
    /\ inv[i].pc = "query"
    /\ inv[i].slept = 0
    /\ inv[i].resp.kind = "none"
    /\ \E r \in {[kind |-> "rows", keys |-> Page(store).keys, others |-> Page(store).others]}
              \cup {[kind |-> k, keys |-> {}, others |-> 0] :
                        k \in {"malformed", "notdict", "error"}} :
          inv' = [inv EXCEPT ![i].resp = r]
    /\ UNCHANGED <<tvars, pvars, hvars, cards, store, store0, fx_rate_cache>>

\* The mutant of EndQuery that starts the POST of every listing without
\* waiting for step 3
EndQuery_PostAll(r, keys, others, how) ==
    [r EXCEPT !.resp = NoResponse, !.attempt = 0, !.tries = 1,
              !.existing_ids = keys, !.existing_count = Cardinality(keys) + others,
              !.new_listings = r.sell_listings, !.new_count = Len(r.sell_listings),
              !.query_done = TRUE, !.query_end = how, !.pc = "post"]

\* The end of step 2 with the existing set it leaves, step 3, and the return
\* of step 5 when there is nothing to POST.  query_end records how step 2
\* ended: with a page of rows, with a body that held none, or exhausted.
EndQuery(r, keys, others, how) ==
    LET fresh == NewListings(r.sell_listings, keys)
        r2 == [r EXCEPT !.resp = NoResponse, !.attempt = 0, !.tries = 0,
                        !.existing_ids = keys,
                        !.existing_count = Cardinality(keys) + others,
                        !.new_listings = fresh, !.new_count = Len(fresh),
                        !.query_done = TRUE, !.query_end = how]
    IN  IF fresh # <<>>
        THEN [r2 EXCEPT !.pc = "post", !.tries = 1]
        ELSE [r2 EXCEPT !.pc = "done", !.outcome = Outcome(r2, TRUE)]

\* The mutant of QueryAttemptFailed that lets the RuntimeError of the last
\* attempt leave export_sell_listings
QueryAttemptFailed_Abort(r) ==
    IF r.attempt < MaxAttempts
    THEN [r EXCEPT !.resp = NoResponse, !.slept = BaseDelay * 2 ^ (r.attempt - 1)]
    ELSE [r EXCEPT !.pc = "raised", !.resp = NoResponse]

\* The mutant of QueryAttemptFailed that sleeps after the last attempt too
QueryAttemptFailed_SleepAlways(r) ==
    [r EXCEPT !.resp = NoResponse, !.slept = BaseDelay * 2 ^ (r.attempt - 1)]

\* An exception reaches the except clause of _query_existing_with_retry:
\* time.sleep(base_delay * 2 ** (attempt - 1)) when another attempt follows,
\* or, after the last attempt, the end of the loop and its RuntimeError, which
\* export_sell_listings catches
QueryAttemptFailed(r) ==
    IF r.attempt < MaxAttempts
    THEN [r EXCEPT !.resp = NoResponse, !.slept = BaseDelay * 2 ^ (r.attempt - 1)]
    ELSE EndQuery(r, {}, 0, "exhausted")

\* time.sleep returns and the loop goes on: the next attempt, or the end of
\* the loop when the attempts are used up
QueryBackoffEnds(i) ==
    /\ inv[i].pc = "query"
    /\ inv[i].slept # 0
    /\ LET r == [inv[i] EXCEPT !.slept = 0]
       IN  inv' = [inv EXCEPT ![i] =
               IF r.attempt < MaxAttempts
               THEN [r EXCEPT !.attempt = @ + 1, !.tries = 1]
               ELSE EndQuery(r, {}, 0, "exhausted")]
    /\ UNCHANGED <<tvars, pvars, hvars, cards, store, store0, fx_rate_cache>>

\* The answer to the query request reaches the client
QueryReturn(i) ==
    /\ inv[i].pc = "query"
    /\ inv[i].resp.kind # "none"
    /\ LET r == inv[i]
       IN  inv' = [inv EXCEPT ![i] =
               CASE r.resp.kind = "rows" -> EndQuery(r, r.resp.keys, r.resp.others, "rows")
                 [] r.resp.kind = "malformed" -> EndQuery(r, {}, 0, "malformed")
                 [] r.resp.kind = "notdict" -> QueryAttemptFailed(r)
                 [] r.resp.kind = "error" ->
                        IF r.tries < QueryStopAfter
                        THEN [r EXCEPT !.resp = NoResponse, !.tries = @ + 1]
                        ELSE QueryAttemptFailed(r)]
    /\ UNCHANGED <<tvars, pvars, hvars, cards, store, store0, fx_rate_cache>>

\* Step 4: api_client.post_sell_listings issues POST /sellListings with the
\* new listings.  The backend upserts them and answers 200, or answers 200
\* with an application error, or the request fails with a RequestException,
\* before or after the backend applied it.
PostRequest(i) ==
    /\ inv[i].pc = "post"
    /\ inv[i].resp.kind = "none"
    /\ \E k \in {"ok", "app_error", "error"}, applied \in BOOLEAN :
          /\ k = "ok" => applied
          /\ k = "app_error" => ~applied
          /\ store' \in (IF applied THEN Upsert(store, inv[i].new_listings) ELSE {store})
          /\ inv' = [inv EXCEPT ![i].resp = [kind |-> k, keys |-> {}, others |-> 0],
                                ![i].posted = TRUE,
                                ![i].payload = inv[i].new_listings]
    /\ UNCHANGED <<tvars, pvars, hvars, cards, store0, fx_rate_cache>>

\* The mutant of EndPost that reports no counts when the POST failed
EndPost_DropCounts(r, ok) ==
    [r EXCEPT !.pc = "done", !.resp = NoResponse, !.tries = 0,
              !.outcome = IF ok THEN Outcome(r, ok) ELSE [NoOutcome EXCEPT !.as_of = NowUtc]]

\* The return of step 5 after the POST
EndPost(r, ok) ==
    [r EXCEPT !.pc = "done", !.resp = NoResponse, !.tries = 0, !.outcome = Outcome(r, ok)]

\* The answer to the POST reaches the client
PostReturn(i) ==
    /\ inv[i].pc = "post"
    /\ inv[i].resp.kind # "none"
    /\ LET r == inv[i]
       IN  inv' = [inv EXCEPT ![i] =
               CASE r.resp.kind = "ok" -> EndPost(r, TRUE)
                 [] r.resp.kind = "app_error" -> EndPost(r, FALSE)
                 [] r.resp.kind = "error" ->
                        IF r.tries < PostStopAfter
                        THEN [r EXCEPT !.resp = NoResponse, !.tries = @ + 1]
                        ELSE EndPost(r, FALSE)]
    /\ UNCHANGED <<tvars, pvars, hvars, cards, store, store0, fx_rate_cache>>

\* Rows of other listings the store holds at the start
OtherRowCounts == {0, PageSize}

\* Channel keys of the cards the store may hold at the start
InitialStoreKeys == {PyStr("MLM32624978")}

TIdle ==
    /\ tbase = EmptyCard
    /\ tcard = EmptyCard
    /\ tfx = 0
    /\ tres = NotRun
    /\ tpayload = NoPayload

\* No parsers.py function has been called
PIdle == pcall = NoCall /\ pprev = NoCall

\* No HTTP client call has been made
HIdle == http = NoHttp

\* ------------------------------------------------------------------------
\* Specification: the export is run, and then run again on the same cards
\* ------------------------------------------------------------------------
Init ==
    /\ TIdle /\ PIdle /\ HIdle
    /\ cards \in CardLists
    /\ store \in {[keys |-> K, other |-> n, first |-> F] :
                    K \in SUBSET InitialStoreKeys, n \in OtherRowCounts,
                    F \in SUBSET InitialStoreKeys}
    /\ store.first \in FirstPages(store.keys, store.other)
    /\ store0 = store
    /\ fx_rate_cache = NoCache
    /\ inv = [i \in Invocations |-> Idle]

FirstRun == Begin(1)

Rerun == inv[1].pc \in {"done", "raised"} /\ Begin(2)

Next ==
    \/ FirstRun
    \/ Rerun
    \/ \E i \in Invocations : QueryRequest(i)
    \/ \E i \in Invocations : QueryReturn(i)
    \/ \E i \in Invocations : QueryBackoffEnds(i)
    \/ \E i \in Invocations : PostRequest(i)
    \/ \E i \in Invocations : PostReturn(i)

Spec == Init /\ [][Next]_vars

\* ------------------------------------------------------------------------
\* Specification: the invocations under a backend and a clock that let them
\* go on.  Every request ends, with an answer or with the exception of its
\* timeout, and time.sleep returns; the code is synchronous, so a step that
\* can be taken is taken.
\* ------------------------------------------------------------------------
Progress ==
    \A i \in Invocations :
        /\ WF_vars(QueryRequest(i))
        /\ WF_vars(QueryReturn(i))
        /\ WF_vars(QueryBackoffEnds(i))
        /\ WF_vars(PostRequest(i))
        /\ WF_vars(PostReturn(i))

LiveSpec == Init /\ [][Next]_vars /\ Progress

\* ------------------------------------------------------------------------
\* Specification: two invocations on the same cards run concurrently
\* ------------------------------------------------------------------------
ConcInit ==
    /\ TIdle /\ PIdle /\ HIdle
    /\ cards \in ConcurrentCardLists
    /\ store \in {[keys |-> K, other |-> 0, first |-> K] : K \in SUBSET InitialStoreKeys}
    /\ store0 = store
    /\ fx_rate_cache = NoCache
    /\ inv = [i \in Invocations |-> Idle]

ConcNext ==
    \/ \E i \in Invocations : Begin(i)
    \/ \E i \in Invocations : QueryRequest(i)
    \/ \E i \in Invocations : QueryReturn(i)
    \/ \E i \in Invocations : QueryBackoffEnds(i)
    \/ \E i \in Invocations : PostRequest(i)
    \/ \E i \in Invocations : PostReturn(i)

ConcSpec == ConcInit /\ [][ConcNext]_vars

\* ------------------------------------------------------------------------
\* Specification of the transformer alone: build a card, transform it once
\* ------------------------------------------------------------------------
TInit ==
    /\ tbase \in BaseCards
    /\ tcard = tbase
    /\ tfx = 0
    /\ tres = NotRun
    /\ tpayload = NoPayload
    /\ PIdle /\ HIdle
    /\ cards = <<>>
    /\ store = [keys |-> {}, other |-> 0, first |-> {}]
    /\ store0 = store
    /\ fx_rate_cache = NoCache
    /\ inv = [i \in Invocations |-> Idle]

\* The caller sets one field of the card it is about to pass in
EditCard(f, v) ==
    /\ tres.kind = "none" /\ tpayload.kind = "none"
    /\ Edits([tcard EXCEPT ![f] = v], tbase) <= MaxEdits
    /\ tcard' = [tcard EXCEPT ![f] = v]
    /\ UNCHANGED <<tbase, tfx, tres, tpayload, pvars, hvars, xvars>>

\* transform_to_sell_listing(tcard, fx)
RunTransform(fx) ==
    /\ tres.kind = "none" /\ tpayload.kind = "none"
    /\ tres' = transform_to_sell_listing(tcard, fx)
    /\ tfx' = fx
    /\ UNCHANGED <<tbase, tcard, tpayload, pvars, hvars, xvars>>

\* build_sell_listings_payload([tcard], fx)
RunBuildPayload(fx) ==
    /\ tres.kind = "none" /\ tpayload.kind = "none"
    /\ tpayload' = build_sell_listings_payload(<<tcard>>, fx)
    /\ tfx' = fx
    /\ UNCHANGED <<tbase, tcard, tres, pvars, hvars, xvars>>

TNext ==
    \/ \E f \in FieldNames : \E v \in FieldValues(f) : EditCard(f, v)
    \/ \E fx \in FxRates : RunTransform(fx)
    \/ \E fx \in FxRates : RunBuildPayload(fx)

TSpec == TInit /\ [][TNext]_vars

\* ------------------------------------------------------------------------
\* Specification of the identity resolver and the card assembler: one call of
\* a parsers.py function, and for assemble_card a second call in which the
\* seller, or the title, price and toggles, or the permalink differ
\* ------------------------------------------------------------------------
P_DIRECT == "https://www.mercadolibre.com.mx/MLM4714040498"

\* The item id as the wid parameter, its first letter percent-encoded
P_WID == "https://www.mercadolibre.com.mx/algo?wid=%4DLM4714040498"

P_WID_OTHER == "https://www.mercadolibre.com.mx/algo?wid=abc"

\* A catalog segment after a bare item-id token
P_ITEM_CATALOG == "https://www.mercadolibre.com.mx/MLM4714040498/p/MLM1054106937"

\* A unified-product segment after a catalog segment
P_CATALOG_UP == "https://www.mercadolibre.com.mx/p/MLM1054106937/up/MLMU3779491406"

\* A catalog id too short for an item id
P_SHORT == "https://www.mercadolibre.com.mx/p/MLM123"

P_FRAGMENT == "https://articulo.mercadolibre.com.mx/MLM-1373603054-placa-_JM#reviews"

P_OTHER_SITE == "https://www.amazon.com.mx/dp/MLM4714040498"

ResolverPermalinks ==
    {"", P_UP, P_CATALOG, P_ARTICULO, P_NOID, P_LOWER, P_DIRECT, P_WID, P_WID_OTHER,
     P_ITEM_CATALOG, P_CATALOG_UP, P_SHORT, P_FRAGMENT, P_OTHER_SITE}

\* Values of an id argument: None, the empty string, an id
IdArgs(id) == {PyNone, PyStr(""), PyStr(id)}

KeyPermalinks == {"", P_NOID, P_CATALOG}

SellerIds == {PyNone, PyNum(0), PyNum(84512000)}

FilterTitles ==
    {PyNone, PyStr("ab"), PyStr("  x  "), PyStr("iPhone 15 128 GB"),
     PyStr("iPhone 13 Reacondicionado Telcel"), PyStr("Funda iPhone 15 de regalo"),
     PyStr("iPhone 14 bloqueado + AirPods"), PyStr("Cargador reacondicionado")}

FilterPrices == {PyNone, PyNum(0), PyNum(-1000), PyNum(10), PyNum(15999000)}

FilterPermalinks == {"", P_ARTICULO, P_CATALOG, P_OTHER_SITE}

AllToggles == {Toggles(r, b, l) : r \in BOOLEAN, b \in BOOLEAN, l \in BOOLEAN}

\* The arguments of the assemble_card calls for a card without a link
LinklessArgs ==
    [permalink : {""}, title : FilterTitles, price_mxn : FilterPrices, currency : {"MXN"},
     seller_id : {PyNone, PyNum(84512000)},
     allow : {Toggles(FALSE, FALSE, FALSE), Toggles(TRUE, TRUE, TRUE)}]

\* The arguments of the assemble_card calls
AssembleArgs ==
    [permalink : {P_UP, P_CATALOG, P_ARTICULO, P_NOID, P_OTHER_SITE, P_FRAGMENT},
     title : {PyStr("ab"), PyStr("iPhone 15 128 GB"),
              PyStr("iPhone 13 Reacondicionado Telcel"), PyStr("Funda iPhone 15 de regalo")},
     price_mxn : {PyNone, PyNum(0), PyNum(15999000)},
     currency : {"MXN"},
     seller_id : {PyNone, PyNum(84512000)},
     allow : {Toggles(FALSE, FALSE, FALSE), Toggles(TRUE, FALSE, FALSE),
              Toggles(TRUE, TRUE, FALSE), Toggles(TRUE, TRUE, TRUE)}]

\* The argument groups in which two calls of assemble_card differ
DiffersIn(a, b) ==
    (IF a.permalink # b.permalink THEN {"permalink"} ELSE {})
    \cup (IF a.seller_id # b.seller_id THEN {"seller"} ELSE {})
    \cup (IF a.title # b.title \/ a.price_mxn # b.price_mxn \/ a.allow # b.allow
          THEN {"filter"} ELSE {})
    \cup (IF a.currency # b.currency THEN {"currency"} ELSE {})

PInit ==
    /\ TIdle /\ PIdle /\ HIdle
    /\ cards = <<>>
    /\ store = [keys |-> {}, other |-> 0, first |-> {}]
    /\ store0 = store
    /\ fx_rate_cache = NoCache
    /\ inv = [i \in Invocations |-> Idle]

\* A test calls fn with the arguments args and gets res
Called(fn, args, res) ==
    /\ pcall = NoCall
    /\ pcall' = [fn |-> fn, args |-> args, res |-> res]
    /\ UNCHANGED <<pprev, tvars, hvars, xvars>>

CallExtractIds(permalink) ==
    Called("extract_ids", [permalink |-> permalink], extract_ids(permalink))

CallComputeChannelItemId(item_id, product_id, up_id, permalink) ==
    Called("compute_channel_item_id",
           [item_id |-> item_id, product_id |-> product_id, up_id |-> up_id,
            permalink |-> permalink],
           compute_channel_item_id(item_id, product_id, up_id, permalink))

CallComputeNeedsEnrichment(item_id, seller_id, is_catalog_product, is_up_product) ==
    Called("compute_needs_enrichment",
           [item_id |-> item_id, seller_id |-> seller_id,
            is_catalog_product |-> is_catalog_product, is_up_product |-> is_up_product],
           parsers_compute_needs_enrichment(item_id, seller_id, is_catalog_product,
                                            is_up_product))

CallClassifyFilter(title, price_mxn, permalink, allow) ==
    Called("classify_filter",
           [title |-> title, price_mxn |-> price_mxn, permalink |-> permalink,
            allow |-> allow],
           classify_filter(title, price_mxn, permalink, allow))

CallParseChannelItemId(permalink) ==
    Called("parse_channel_item_id", [permalink |-> permalink],
           parse_channel_item_id(permalink))

\* ml_scrape_seller_inventory(max_cards=20)
MaxCardsReturned == 20

\* A card as extract_cards_from_listing_html finds it on a listing page
RawCard(permalink, title, price_mxn) ==
    [permalink |-> permalink, title |-> title, price_mxn |-> price_mxn]

\* Cards of the pages of a crawl: one listing seen with two prices and, under
\* a link with a fragment, with a title too short to pass; a catalog page
RawCards ==
    {RawCard(P_ARTICULO, PyStr("iPhone 15 128 GB"), PyNum(15999000)),
     RawCard(P_ARTICULO, PyStr("iPhone 15 128 GB"), PyNum(14999000)),
     RawCard(P_FRAGMENT, PyStr("ab"), PyNum(15999000)),
     RawCard(P_CATALOG, PyStr("iPhone 13 Reacondicionado Telcel"), PyNum(9999000))}

\* Longest page and longest crawl, in cards and in pages
MaxPageCards == 2

MaxPages == 2

\* The crawls: the pages of a pass with the cards found on each
Crawls == SeqsUpTo(SeqsUpTo(RawCards, MaxPageCards), MaxPages) \ {<<>>}

\* A card whose link was not found on the page
LinklessCard == RawCard("", PyStr("iPhone 15 128 GB"), PyNum(15999000))

\* The one-page crawls that meet the linkless card
LinklessCrawls ==
    {<<page>> : page \in {pg \in SeqsUpTo(RawCards \cup {LinklessCard}, MaxPageCards) :
                              \E k \in 1..Len(pg) : pg[k] = LinklessCard}}

\* all_cards after the loop over the pages: the cards of the pages in the
\* order they were collected
RECURSIVE Collected(_)
Collected(pages) ==
    IF pages = <<>> THEN <<>> ELSE Head(pages) \o Collected(Tail(pages))

\* {c["permalink"]: c for c in cs}.values(): one card per permalink, at the
\* place of its first occurrence, with the value of its last
RECURSIVE DedupByPermalink(_, _)
DedupByPermalink(cs, acc) ==
    IF cs = <<>> THEN acc
    ELSE LET c == Head(cs)
             at == {j \in 1..Len(acc) : acc[j].permalink = c.permalink}
         IN  DedupByPermalink(Tail(cs),
                 IF at = {} THEN Append(acc, c)
                 ELSE [j \in 1..Len(acc) |-> IF j \in at THEN c ELSE acc[j]])

\* The "cards" a scrape tool returns for the pages of its crawl: each raw
\* card goes through assemble_card with the default toggles, the cards are
\* deduplicated by permalink, the filtered ones are left out, and
\* ml_scrape_seller_inventory, which knows the seller, returns at most
\* max_cards of them
ScrapedCards(tool, pages, seller_id) ==
    LET raw == Collected(pages)
        processed ==
            [k \in 1..Len(raw) |->
                assemble_card([permalink |-> raw[k].permalink, title |-> raw[k].title,
                               price_mxn |-> raw[k].price_mxn, currency |-> "MXN",
                               seller_id |-> IF tool = "ml_scrape_category"
                                             THEN PyNone ELSE seller_id,
                               allow |-> Toggles(FALSE, FALSE, FALSE)])]
        valid == SelectSeq(DedupByPermalink(processed, <<>>), LAMBDA c : ~c.filtered_out)
    IN  IF tool = "ml_scrape_category" \/ Len(valid) <= MaxCardsReturned
        THEN valid
        ELSE SubSeq(valid, 1, MaxCardsReturned)

\* The scrape tools
ScrapeTools == {"ml_scrape_category", "ml_scrape_seller_inventory"}

\* A scrape tool runs over the pages of a crawl
CallScrape(tool, pages) ==
    Called(tool, [pages |-> pages], ScrapedCards(tool, pages, PyNum(84512000)))

\* The same tool runs again over a crawl that collected the same cards in
\* another order
CallScrapeAgain(pages) ==
    /\ pcall.fn \in ScrapeTools /\ pprev = NoCall
    /\ pages # pcall.args.pages
    /\ \A c \in RawCards :
          Cardinality({k \in 1..Len(Collected(pages)) : Collected(pages)[k] = c})
          = Cardinality({k \in 1..Len(Collected(pcall.args.pages)) :
                            Collected(pcall.args.pages)[k] = c})
    /\ pprev' = pcall
    /\ pcall' = [fn |-> pcall.fn, args |-> [pages |-> pages],
                 res |-> ScrapedCards(pcall.fn, pages, PyNum(84512000))]
    /\ UNCHANGED <<tvars, hvars, xvars>>

\* The cards the transform-time gate is called with: attribute bags with and
\* without JSON-LD, as a dict and JSON-encoded, the two price fields, and the
\* flag of the crawl
GateCards ==
    {[EmptyCard EXCEPT !["attributes"] = at, !["price_mxn"] = pm, !["price"] = pr,
                       !["needs_enrichment"] = ne] :
        at \in {PyAbsent, PyDict("{\"jsonld\":{\"@type\":\"Product\"}}"),
                PyDict("{\"brand\":\"Roma\"}"), PyDict("{\"jsonld\":null}"),
                PyStr("{\"jsonld\":{\"@type\":\"Product\"}}"), PyStr("sin datos")},
        pm \in {PyAbsent, PyNone, PyNum(0), PyNum(100000)},
        pr \in {PyAbsent, PyNum(50000)},
        ne \in {PyAbsent, PyBool(TRUE), PyBool(FALSE)}}

CallExportComputeNeedsEnrichment(card) ==
    Called("export.compute_needs_enrichment", [card |-> card],
           compute_needs_enrichment(card))

CallAssembleCard(a) == Called("assemble_card", a, assemble_card(a))

\* A second call of assemble_card that differs from the first in one group
\* of arguments
CallAssembleCardAgain(b) ==
    /\ pcall.fn = "assemble_card" /\ pprev = NoCall
    /\ Cardinality(DiffersIn(pcall.args, b)) = 1
    /\ pprev' = pcall
    /\ pcall' = [fn |-> "assemble_card", args |-> b, res |-> assemble_card(b)]
    /\ UNCHANGED <<tvars, hvars, xvars>>

\* The three resolvers of the channel key are applied to one permalink:
\* extract_identity to a card that carries only the permalink,
\* parse_channel_item_id, and extract_ids followed by compute_channel_item_id
CallResolvers(permalink) ==
    Called("resolvers", [permalink |-> permalink],
           [identity |-> extract_identity([EmptyCard EXCEPT !["permalink"] = PyStr(permalink)]),
            parsed |-> parse_channel_item_id(permalink),
            computed |-> Bind(extract_ids(permalink), LAMBDA ids :
                            compute_channel_item_id(ids.item_id, ids.product_id, ids.up_id,
                                                    permalink))])

PNext ==
    \/ \E p \in ResolverPermalinks : CallExtractIds(p)
    \/ \E i \in IdArgs("MLM4714040498"), pr \in IdArgs("MLM1054106937"),
          u \in IdArgs("MLMU3779491406"), p \in KeyPermalinks :
          CallComputeChannelItemId(i, pr, u, p)
    \/ \E i \in IdArgs("MLM4714040498"), sid \in SellerIds, c \in BOOLEAN, u \in BOOLEAN :
          CallComputeNeedsEnrichment(i, sid, c, u)
    \/ \E t \in FilterTitles, pm \in FilterPrices, p \in FilterPermalinks,
          allow \in AllToggles : CallClassifyFilter(t, pm, p, allow)
    \/ \E p \in ResolverPermalinks : CallParseChannelItemId(p)
    \/ \E card \in GateCards : CallExportComputeNeedsEnrichment(card)
    \/ \E tool \in ScrapeTools, pages \in Crawls \cup LinklessCrawls : CallScrape(tool, pages)
    \/ \E pages \in Crawls : CallScrapeAgain(pages)
    \/ \E a \in AssembleArgs \cup LinklessArgs : CallAssembleCard(a)
    \/ \E b \in AssembleArgs : CallAssembleCardAgain(b)
    \/ \E p \in ResolverPermalinks : CallResolvers(p)

PSpec == PInit /\ [][PNext]_vars

\* ------------------------------------------------------------------------
\* The HTTP calls: HttpClient.get_html and get_html_with_fallback
\* (mcp_servers/ml_scrape_mcp/http_client.py) and the retried calls of
\* BackendApiClient (api/backend_api.py), one request at a time
\* ------------------------------------------------------------------------
\* get_html: stop_after_attempt(3)
GetHtmlStopAfter == 3

\* A response with the status code n
Status(n) == [kind |-> "response", status_code |-> n]

\* requests raises a RequestException without a response (no connection,
\* timeout)
ConnectionError == [kind |-> "exception", status_code |-> 0]

\* What one request can meet
Answers ==
    {Status(200), Status(204), Status(403), Status(404), Status(429), Status(500),
     ConnectionError}

\* The URLs of the fetches
U_PRIMARY == "https://listado.mercadolibre.com.mx/iphone-15"
U_FALLBACK == "https://www.mercadolibre.com.mx/jm/search?as_word=iphone-15"
U_LAST == "https://listado.mercadolibre.com.mx/iphone-15_NoIndex_True"

\* The fallback lists of the fetches
FallbackLists == {<<>>, <<U_FALLBACK>>, <<U_FALLBACK, U_LAST>>}

\* r.text of a 200 response of url
Text(url) == "<html>" \o url \o "</html>"

\* Response.raise_for_status raises an HTTPError, a RequestException, for
\* the statuses 400..599
RaiseForStatus(status_code) == 400 <= status_code /\ status_code < 600

\* str() of the exception an answer gives: the HTTPError of raise_for_status
\* (without the reason phrase of the server) or the connection error
ErrorText(a, url) ==
    IF a.kind = "exception"
    THEN "ConnectionError for url: " \o url
    ELSE ToString(a.status_code)
         \o (IF a.status_code < 500 THEN " Client Error" ELSE " Server Error")
         \o " for url: " \o url

\* The number of attempts the decorator of fn allows
StopAfter(fn) ==
    CASE fn = "get_html" -> GetHtmlStopAfter
      [] fn = "query_sell_listings" -> QueryStopAfter
      [] fn = "post_sell_listings" -> PostStopAfter

\* The functions decorated with @retry
RetriedFunctions == {"get_html", "query_sell_listings", "post_sell_listings"}

\* Whether the body of fn raises a requests.RequestException on the answer
\* a.  get_html calls raise_for_status; the backend calls raise a plain
\* RequestException on 429 and 5xx and call raise_for_status when the
\* response is not ok.
RaisesRequestException(fn, a) ==
    \/ a.kind = "exception"
    \/ /\ fn = "get_html"
       /\ RaiseForStatus(a.status_code)
    \/ /\ fn \in {"query_sell_listings", "post_sell_listings"}
       /\ \/ a.status_code = 429
          \/ a.status_code >= 500
          \/ RaiseForStatus(a.status_code)

\* str() of the RequestException the body of fn raises on the answer a
RaisedText(fn, a, url) ==
    IF fn # "get_html" /\ a.kind = "response" /\ a.status_code = 429
    THEN "Rate limited"
    ELSE IF fn # "get_html" /\ a.kind = "response" /\ a.status_code >= 500
    THEN "Server error: " \o ToString(a.status_code)
    ELSE ErrorText(a, url)

\* A call of a function decorated with @retry starts: nothing requested yet
StartRetried(fn, url) ==
    /\ HIdle
    /\ http' = [op |-> fn, urls |-> <<url>>, last_error |-> "None", log |-> <<>>,
                out |-> [kind |-> "running", value |-> ""]]
    /\ UNCHANGED <<tvars, pvars, xvars>>

\* One attempt of a decorated call h meets the answer a: the body returns,
\* or raises a RequestException and retry_if_exception_type retries it until
\* stop_after_attempt, after which reraise=True lets it out
RetriedAttempt(h, a) ==
    LET url == h.urls[1]
        log == Append(h.log, [url |-> url, answer |-> a])
    IN  IF RaisesRequestException(h.op, a)
        THEN IF Len(log) < StopAfter(h.op)
             THEN [h EXCEPT !.log = log]
             ELSE [h EXCEPT !.log = log,
                            !.out = [kind |-> "raise", value |-> RaisedText(h.op, a, url)]]
        ELSE [h EXCEPT !.log = log,
                       !.out = [kind |-> "return",
                                value |-> IF h.op = "get_html" THEN Text(url) ELSE "json"]]

\* The running decorated call issues its next request and gets the answer a
Attempt(a) ==
    /\ http.op \in RetriedFunctions
    /\ http.out.kind = "running"
    /\ http' = RetriedAttempt(http, a)
    /\ UNCHANGED <<tvars, pvars, xvars>>

\* get_html_with_fallback(url, fallback_urls) starts: urls_to_try is the
\* primary URL followed by the fallbacks, last_error is None
StartFallback(url, fallback_urls) ==
    /\ HIdle
    /\ http' = [op |-> "get_html_with_fallback", urls |-> <<url>> \o fallback_urls,
                last_error |-> "None", log |-> <<>>,
                out |-> [kind |-> "running", value |-> ""]]
    /\ UNCHANGED <<tvars, pvars, xvars>>

\* The HTTPError after the loop of get_html_with_fallback
AllFailed(h) ==
    IF Len(h.log) < Len(h.urls)
    THEN h
    ELSE [h EXCEPT !.out = [kind |-> "raise",
                            value |-> "Failed to fetch from any URL. Last error: "
                                      \o h.last_error]]

\* The mutant of FallbackIteration that lets an error other than 404 out of
\* the loop
FallbackIteration_Escalate(h, a) ==
    LET url == h.urls[Len(h.log) + 1]
        h2 == [h EXCEPT !.log = Append(h.log, [url |-> url, answer |-> a])]
    IN  IF a.kind = "response" /\ a.status_code = 200
        THEN [h2 EXCEPT !.out = [kind |-> "return", value |-> Text(url)]]
        ELSE IF a.kind = "response" /\ a.status_code = 404
        THEN AllFailed([h2 EXCEPT !.last_error = "404 for " \o url])
        ELSE IF a.kind = "exception" \/ RaiseForStatus(a.status_code)
        THEN [h2 EXCEPT !.out = [kind |-> "raise", value |-> ErrorText(a, url)]]
        ELSE AllFailed(h2)

\* One iteration of the loop of get_html_with_fallback over the next URL,
\* which meets the answer a: 200 returns r.text; 404 records "404 for url";
\* another status goes through raise_for_status, whose exception, like a
\* connection error, is recorded by the except clause; a status that is
\* neither 200 nor an error records nothing.  After the last URL the loop
\* ends and the HTTPError is raised.
FallbackIteration(h, a) ==
    LET url == h.urls[Len(h.log) + 1]
        h2 == [h EXCEPT !.log = Append(h.log, [url |-> url, answer |-> a])]
    IN  IF a.kind = "response" /\ a.status_code = 200
        THEN [h2 EXCEPT !.out = [kind |-> "return", value |-> Text(url)]]
        ELSE IF a.kind = "response" /\ a.status_code = 404
        THEN AllFailed([h2 EXCEPT !.last_error = "404 for " \o url])
        ELSE IF a.kind = "exception" \/ RaiseForStatus(a.status_code)
        THEN AllFailed([h2 EXCEPT !.last_error = ErrorText(a, url)])
        ELSE AllFailed(h2)

\* The running get_html_with_fallback requests its next URL and gets a
FallbackAttempt(a) ==
    /\ http.op = "get_html_with_fallback"
    /\ http.out.kind = "running"
    /\ http' = FallbackIteration(http, a)
    /\ UNCHANGED <<tvars, pvars, xvars>>

\* The tracker link of a card, a link that only looks like one to a reader,
\* and the product page the tracker redirects to
U_TRACKER == "https://click1.mercadolibre.com.mx/mclics/clicks/external/MLM/count"
U_PLAIN == "https://articulo.mercadolibre.com.mx/MLM-1373603054-placa-tubo-_JM"
U_CLICK_ELSEWHERE == "https://click.example.com/r?u=1"

\* The links resolve_click_tracker_url is called with
ResolveUrls == {"", U_PLAIN, U_CLICK_ELSEWHERE, U_TRACKER}

\* parsers.is_click_tracker_url(url)
is_click_tracker_url(url) ==
    IF url = ""
    THEN FALSE
    ELSE Contains(Lower(url), "click") /\ Contains(Lower(url), "mercadolibre")

\* response.url of a followed request to url: the page the redirects end at
FinalUrl(url) == IF url = U_TRACKER THEN U_PLAIN ELSE url

\* resolve_click_tracker_url(url) starts: a link that is no click tracker
\* is returned at once
StartResolve(url) ==
    /\ HIdle
    /\ http' = [op |-> "resolve_click_tracker_url", urls |-> <<url>>,
                last_error |-> "None", log |-> <<>>,
                out |-> IF is_click_tracker_url(url)
                        THEN [kind |-> "running", value |-> ""]
                        ELSE [kind |-> "return", value |-> url]]
    /\ UNCHANGED <<tvars, pvars, xvars>>

\* The next request of resolve_click_tracker_url, requests.head and then
\* requests.get, meets the answer a: an ok response returns response.url; a
\* HEAD response that is not ok leads to the GET; an exception of either
\* request is swallowed by "except Exception: pass" and the link itself is
\* returned, as it is after a GET response that is not ok
ResolveRequest(h, a) ==
    LET url == h.urls[1]
        method == IF h.log = <<>> THEN "HEAD" ELSE "GET"
        h2 == [h EXCEPT !.log = Append(h.log, [url |-> url, answer |-> a,
                                               method |-> method])]
    IN  IF a.kind = "exception"
        THEN [h2 EXCEPT !.out = [kind |-> "return", value |-> url]]
        ELSE IF ~RaiseForStatus(a.status_code)
        THEN [h2 EXCEPT !.out = [kind |-> "return", value |-> FinalUrl(url)]]
        ELSE IF method = "HEAD"
        THEN h2
        ELSE [h2 EXCEPT !.out = [kind |-> "return", value |-> url]]

\* The running resolve_click_tracker_url issues its next request and gets a
ResolveAttempt(a) ==
    /\ http.op = "resolve_click_tracker_url"
    /\ http.out.kind = "running"
    /\ http' = ResolveRequest(http, a)
    /\ UNCHANGED <<tvars, pvars, xvars>>

HInit ==
    /\ TIdle /\ PIdle /\ HIdle
    /\ cards = <<>>
    /\ store = [keys |-> {}, other |-> 0, first |-> {}]
    /\ store0 = store
    /\ fx_rate_cache = NoCache
    /\ inv = [i \in Invocations |-> Idle]

HNext ==
    \/ \E fn \in RetriedFunctions : StartRetried(fn, U_PRIMARY)
    \/ \E a \in Answers : Attempt(a)
    \/ \E fb \in FallbackLists : StartFallback(U_PRIMARY, fb)
    \/ \E a \in Answers : FallbackAttempt(a)
    \/ \E url \in ResolveUrls : StartResolve(url)
    \/ \E a \in Answers : ResolveAttempt(a)

HSpec == HInit /\ [][HNext]_vars

\* ------------------------------------------------------------------------
\* Settings (config/settings.py): load_settings() and the FX rate cache
\* ------------------------------------------------------------------------

\* range(8): the backend is asked for today and for the seven days before
MaxDaysBack == 8

\* _DEFAULT_BACKEND
DEFAULT_BACKEND == "https://smartloansbackend.azurewebsites.net"

\* s.rstrip("/")
RECURSIVE RStripSlash(_)
RStripSlash(s) ==
    IF s # "" /\ Ch(s, Len(s)) = "/" THEN RStripSlash(SubSeq(s, 1, Len(s) - 1)) ELSE s

\* os.getenv(name, default), v the value of the variable (PyAbsent when unset)
GetEnv(v, default) == IF v.t = "absent" THEN default ELSE v.s

\* The environments of a load_settings() call; the variables read by the
\* fields before fx_rate_to_usd are taken to be well-formed
Environments ==
    [BACKEND_BASE_URL : {PyAbsent, PyStr("/"), PyStr("https://backend.example/")},
     SELL_LISTINGS_BACKEND_URL : {PyAbsent, PyStr("https://backend.example/sellListings")},
     FX_RATE_TO_USD : {PyAbsent, PyStr("0.058"), PyStr("abc")}]

\* What the backend answers to one exchange_rate_by_day request: the request
\* raises, or a response arrives whose body is JSON or not and whose
\* exchangeRates list holds the "rate" of each entry (PyAbsent: no such key)
FxAnswer(status_code, json, rates) ==
    [kind |-> "response", status_code |-> status_code, json |-> json, rates |-> rates]

FxAnswers ==
    {[kind |-> "exception", status_code |-> 0, json |-> FALSE, rates |-> <<>>],
     FxAnswer(500, FALSE, <<>>), FxAnswer(200, FALSE, <<>>), FxAnswer(200, TRUE, <<>>),
     FxAnswer(200, TRUE, <<PyAbsent>>), FxAnswer(200, TRUE, <<PyNone>>),
     FxAnswer(200, TRUE, <<PyStr("abc")>>), FxAnswer(200, TRUE, <<PyNum(0)>>),
     FxAnswer(200, TRUE, <<PyNum(58)>>), FxAnswer(200, TRUE, <<PyNum(59), PyNum(58)>>)}

\* base_url of _load_fx_rate
FxBaseUrl(env) == RStripSlash(GetEnv(env.BACKEND_BASE_URL, DEFAULT_BACKEND))

\* _load_sell_listings_url(): ok = FALSE stands for its ValueError
load_sell_listings_url(env) ==
    LET custom_url == Strip(GetEnv(env.SELL_LISTINGS_BACKEND_URL, ""))
        base_url == RStripSlash(GetEnv(env.BACKEND_BASE_URL, ""))
    IN  IF custom_url # ""
        THEN [ok |-> TRUE, url |-> RStripSlash(custom_url)]
        ELSE IF base_url = ""
        THEN [ok |-> FALSE, url |-> ""]
        ELSE [ok |-> TRUE, url |-> base_url \o "/sellListings"]

\* How a load_settings() call stands: still asking the backend, returned the
\* settings with this rate (unit 1/100000), or raised
FxRunning == [kind |-> "running", rate |-> 0, error |-> ""]

FxRaise(h, error) == [h EXCEPT !.out = [kind |-> "raise", rate |-> 0, error |-> error]]

\* _load_fx_rate() has returned rate: Settings() goes on to its last field,
\* sell_listings_backend_url, whose factory may raise
SettingsLoaded(h, rate) ==
    IF load_sell_listings_url(h.env).ok
    THEN [h EXCEPT !.out = [kind |-> "return", rate |-> rate, error |-> ""]]
    ELSE FxRaise(h, "ValueError: Either SELL_LISTINGS_BACKEND_URL or BACKEND_BASE_URL must be set.")

\* A source yields the float f: it is cached and returned
FxObtained(h, f) ==
    [cache |-> [set |-> TRUE, rate |-> 100 * f.m], h |-> SettingsLoaded(h, 100 * f.m)]

\* Step 3 of _load_fx_rate: the FX_RATE_TO_USD environment variable
FxEnvFallback(h, cache) ==
    LET fx_rate == h.env.FX_RATE_TO_USD
    IN  IF fx_rate.t = "absent"
        THEN [cache |-> cache,
              h |-> FxRaise(h, "ValueError: Could not determine FX_RATE_TO_USD")]
        ELSE IF ParseFloat(fx_rate.s).ok
        THEN FxObtained(h, ParseFloat(fx_rate.s).f)
        ELSE [cache |-> cache, h |-> FxRaise(h, "ValueError: Invalid FX_RATE_TO_USD value")]

\* The loop over days_back goes to the previous day, or ends after the last
FxPreviousDay(h, cache) ==
    IF h.requests < MaxDaysBack THEN [cache |-> cache, h |-> h] ELSE FxEnvFallback(h, cache)

\* One requests.post of the loop meets the answer a
FxResponse(h, cache, a) ==
    LET h2 == [h EXCEPT !.requests = h.requests + 1]
        rate == IF a.rates = <<>> THEN PyNone ELSE a.rates[1]
    IN  IF a.kind = "exception"
        THEN FxEnvFallback(h2, cache)
        ELSE IF RaiseForStatus(a.status_code)
        THEN FxPreviousDay(h2, cache)
        ELSE IF ~a.json
        THEN FxEnvFallback(h2, cache)
        ELSE IF rate.t \in {"absent", "none"}
        THEN FxPreviousDay(h2, cache)
        ELSE IF ToFloat(rate).ok
        THEN FxObtained(h2, ToFloat(rate).f)
        ELSE FxEnvFallback(h2, cache)

FxCacheHit_Never(cache) == FALSE

\* _fx_rate_cache is not None
FxCacheHit(cache) == cache.set

\* load_settings() is called in the environment env: Settings() reaches
\* _load_fx_rate(), which serves a cached rate at once, asks the backend when
\* a base URL is configured, and else turns to the environment variable
LoadSettingsBegins(env, cache) ==
    LET h == [op |-> "load_settings", env |-> env, requests |-> 0, out |-> FxRunning]
    IN  IF FxCacheHit(cache)
        THEN [cache |-> cache, h |-> SettingsLoaded(h, cache.rate)]
        ELSE IF FxBaseUrl(env) # ""
        THEN [cache |-> cache, h |-> h]
        ELSE FxEnvFallback(h, cache)

StartLoadSettings(env) ==
    /\ HIdle \/ (http.op = "load_settings" /\ http.out.kind # "running")
    /\ http' = LoadSettingsBegins(env, fx_rate_cache).h
    /\ fx_rate_cache' = LoadSettingsBegins(env, fx_rate_cache).cache
    /\ UNCHANGED <<tvars, pvars, cards, store, store0, inv>>

\* The running load_settings() issues its next request and gets a
FxRequest(a) ==
    /\ http.op = "load_settings"
    /\ http.out.kind = "running"
    /\ http' = FxResponse(http, fx_rate_cache, a).h
    /\ fx_rate_cache' = FxResponse(http, fx_rate_cache, a).cache
    /\ UNCHANGED <<tvars, pvars, cards, store, store0, inv>>

FNext ==
    \/ \E env \in Environments : StartLoadSettings(env)
    \/ \E a \in FxAnswers : FxRequest(a)

FSpec == HInit /\ [][FNext]_vars

\* ========================================================================
\* Properties
\* ========================================================================
\* The channel keys of a list of listings
KeysOf(listings) == {listings[j].channelItemId : j \in 1..Len(listings)}

\* The listings of a list whose channel key is outside a set, in order
Outside(listings, ids) ==
    [j \in 1..Len(listings) |-> listings[j].channelItemId \notin ids]

RECURSIVE Keep(_, _)
Keep(listings, flags) ==
    IF listings = <<>> THEN <<>>
    ELSE IF flags[1] THEN <<Head(listings)>> \o Keep(Tail(listings), Tail(flags))
    ELSE Keep(Tail(listings), Tail(flags))

Diff(listings, ids) == Keep(listings, Outside(listings, ids))

\* C1: when the first run's query phase and POST both succeeded, a second
\* run on the same cards, whose query phase also succeeds, finds nothing
\* new: new_count is 0 and it issues no POST, however many rows the store
\* already held.
C1_RerunIsIdempotent ==
    ( /\ inv[1].pc = "done" /\ inv[1].query_end = "rows" /\ inv[1].outcome.ok
      /\ inv[2].query_done /\ inv[2].query_end = "rows" )
    => ( /\ inv[2].new_count = 0
         /\ inv[2].new_listings = <<>>
         /\ ~inv[2].posted )

\* C2: in one invocation a POST is issued iff some transformed listing has a
\* channel key outside the existing set the invocation obtained; the payload
\* of the POST is exactly those listings; with no such listing the
\* invocation ends without a POST and with ok true.
C2_PostIffNew ==
    \A i \in Invocations :
        LET r == inv[i]
            expected == Diff(r.sell_listings, r.existing_ids)
        IN  /\ r.posted => (r.query_done /\ expected # <<>> /\ r.payload = expected)
            /\ (r.query_done /\ r.pc = "post") => expected # <<>>
            /\ r.pc = "done" => (r.posted <=> expected # <<>>)
            /\ (r.pc = "done" /\ expected = <<>>) => r.outcome.ok

\* A finished invocation that POSTed some of its listings and held back
\* others, which the store already had
C2_Witness ==
    \E i \in Invocations :
        /\ inv[i].pc = "done" /\ inv[i].posted
        /\ inv[i].payload # <<>>
        /\ Len(inv[i].payload) < Len(inv[i].sell_listings)

\* The answer in flight is the one that makes an attempt of the query phase
\* fail: an exception that is not retried, or the last retried one
AttemptFails(r) ==
    /\ r.pc = "query"
    /\ \/ r.resp.kind = "notdict"
       \/ r.resp.kind = "error" /\ r.tries = QueryStopAfter

\* C3: when every attempt of the query phase has failed the invocation does
\* not abort: it goes on with an empty existing set and existing_count 0,
\* every transformed listing counts as new and is POSTed, and the outcome
\* reports existing_count 0.
C3_ExhaustedQueryDegrades ==
    /\ [][\A i \in Invocations :
            (AttemptFails(inv[i]) /\ inv[i].attempt = MaxAttempts /\ inv'[i] # inv[i])
            => /\ inv'[i].pc \in {"post", "done"}
               /\ inv'[i].query_end = "exhausted"
               /\ inv'[i].existing_ids = {}
               /\ inv'[i].existing_count = 0
               /\ inv'[i].new_listings = inv[i].sell_listings
               /\ inv'[i].pc = "done" <=> inv[i].sell_listings = <<>>]_vars
    /\ [](\A i \in Invocations :
            inv[i].query_end = "exhausted"
            => /\ inv[i].pc # "raised"
               /\ inv[i].posted => inv[i].payload = inv[i].sell_listings
               /\ inv[i].pc = "done"
                  => /\ inv[i].outcome.existing_count = 0
                     /\ inv[i].outcome.new_count = Len(inv[i].sell_listings)
                     /\ inv[i].posted <=> inv[i].sell_listings # <<>>)

\* An invocation whose query phase was exhausted POSTed a listing that the
\* store already held
C3_Witness ==
    \E i \in Invocations :
        /\ inv[i].pc = "done" /\ inv[i].query_end = "exhausted" /\ inv[i].posted
        /\ KeysOf(inv[i].payload) \cap store0.keys # {}

\* The answer in flight is the one that ends the POST without success: an
\* application-level error, or the last retried exception
PostFails(r) ==
    /\ r.pc = "post"
    /\ \/ r.resp.kind = "app_error"
       \/ r.resp.kind = "error" /\ r.tries = PostStopAfter

\* C4: a POST that raises after its retries, or that reports an application
\* error, never makes the invocation raise: it returns an outcome with ok
\* false whose existing_count, new_count, skipped and skip_reasons are the
\* values steps 1 to 3 computed, as they are when the POST succeeds.
C4_FailedPostReportsCounts ==
    [][\A i \in Invocations :
        (inv[i].pc = "post" /\ inv'[i] # inv[i])
        => /\ inv'[i].pc \in {"post", "done"}
           /\ PostFails(inv[i]) => (inv'[i].pc = "done" /\ ~inv'[i].outcome.ok)
           /\ inv[i].resp.kind = "ok" => (inv'[i].pc = "done" /\ inv'[i].outcome.ok)
           /\ inv'[i].pc = "done"
              => /\ inv'[i].outcome.existing_count = inv[i].existing_count
                 /\ inv'[i].outcome.new_count = inv[i].new_count
                 /\ inv'[i].outcome.new_count = Len(inv[i].payload)
                 /\ inv'[i].outcome.skipped = inv[i].skipped
                 /\ inv'[i].outcome.skip_reasons = inv[i].skip_reasons]_vars

\* An invocation that skipped a card and found rows in the store ended with
\* ok false after its POST failed
C4_Witness ==
    \E i \in Invocations :
        /\ inv[i].pc = "done" /\ inv[i].posted /\ ~inv[i].outcome.ok
        /\ inv[i].outcome.new_count > 0
        /\ inv[i].outcome.skipped > 0
        /\ inv[i].outcome.existing_count > 0

\* C5: within one invocation the query phase and the upsert phase do not
\* overlap: no POST before the query phase has ended, no query request once
\* a POST has been issued, and the diff is computed from the result of the
\* finished query phase.
C5_QueryThenUpsert ==
    /\ [](\A i \in Invocations :
            /\ (inv[i].pc = "post" \/ inv[i].posted) => inv[i].query_done
            /\ inv[i].pc = "query" => (~inv[i].query_done /\ ~inv[i].posted)
            /\ inv[i].query_done
               => inv[i].new_listings = Diff(inv[i].sell_listings, inv[i].existing_ids))
    /\ [][\A i \in Invocations :
            /\ (inv[i].query_done /\ inv'[i].pc # "idle")
               => /\ inv'[i].query_done
                  /\ inv'[i].existing_ids = inv[i].existing_ids
                  /\ inv'[i].new_listings = inv[i].new_listings
            /\ (inv[i].pc = "query" /\ inv[i].resp.kind = "rows" /\ inv'[i] # inv[i])
               => /\ inv'[i].query_done
                  /\ inv'[i].existing_ids = inv[i].resp.keys]_vars

\* A POST is in flight whose payload leaves out a listing the finished query
\* phase reported
C5_Witness ==
    \E i \in Invocations :
        /\ inv[i].pc = "post" /\ inv[i].resp.kind # "none"
        /\ inv[i].query_end = "rows"
        /\ inv[i].existing_ids # {}
        /\ Len(inv[i].payload) < Len(inv[i].sell_listings)

\* The channel keys of the cards that transform to a listing at a rate
TransformedKeys(cs, fx) ==
    {transform_to_sell_listing(cs[j], fx).listing.channelItemId :
        j \in {k \in 1..Len(cs) : transform_to_sell_listing(cs[k], fx).kind = "listing"}}

SkipCodes ==
    {SKIP_MISSING_PERMALINK, SKIP_MISSING_PRICE, SKIP_INVALID_CURRENCY,
     SKIP_MISSING_IDENTITY, SKIP_NEEDS_ENRICHMENT, SKIP_INVALID_PAYLOAD}

\* The sum of the values of a dict of counts
RECURSIVE SumOf(_)
SumOf(d) ==
    IF DOMAIN d = {} THEN 0
    ELSE LET k == CHOOSE x \in DOMAIN d : TRUE
         IN  d[k] + SumOf([x \in DOMAIN d \ {k} |-> d[x]])

\* C7: transform_to_sell_listing is total: for every card it returns a
\* listing or one of the six skip codes, and raises nothing.
C7_TransformIsTotal ==
    tres.kind # "none"
    => /\ tres.kind \in {"listing", "skip"}
       /\ tres.kind = "skip" => tres.code \in SkipCodes

\* The conditions of the six checks, each as the transformer tests it
FailsPermalink(card) == ResolvePermalink(card).s = ""

FailsTitle(card) == Len(Strip(TitleRaw(card).s)) < 3

FailsPrice(card) ==
    \/ PriceRaw(card).t = "none"
    \/ ~ToFloat(PriceRaw(card)).ok
    \/ ~ToFloat(PriceRaw(card)).f.nan /\ ToFloat(PriceRaw(card)).f.m <= 0

FailsCurrency(card) == Upper(CurrencyRaw(card).s) # "MXN"

FailsIdentity(card) ==
    ~Truthy(ChannelItemId(extract_identity(card), ResolvePermalink(card).s))

FailsEnrichment(card) == compute_needs_enrichment(card)

\* The code of the earliest failing check in the documented order, "" if none
EarliestFailure(card) ==
    IF FailsPermalink(card) THEN SKIP_MISSING_PERMALINK
    ELSE IF FailsTitle(card) THEN SKIP_INVALID_PAYLOAD
    ELSE IF FailsPrice(card) THEN SKIP_MISSING_PRICE
    ELSE IF FailsCurrency(card) THEN SKIP_INVALID_CURRENCY
    ELSE IF FailsIdentity(card) THEN SKIP_MISSING_IDENTITY
    ELSE IF FailsEnrichment(card) THEN SKIP_NEEDS_ENRICHMENT
    ELSE ""

\* C8: the checks run in the order permalink, title, price, currency,
\* channel key, enrichment; a returned skip code is that of the earliest
\* failing check whatever later checks would say, and a listing is returned
\* only when all six pass.
C8_EarliestFailingCheckDecides ==
    /\ tres.kind = "skip" => tres.code = EarliestFailure(tcard)
    /\ tres.kind = "listing" => EarliestFailure(tcard) = ""

\* A card that fails the title check and the price check, and a later one
\* too, was skipped
C8_Witness ==
    /\ tres.kind = "skip"
    /\ ~FailsPermalink(tcard)
    /\ FailsTitle(tcard) /\ FailsPrice(tcard) /\ FailsCurrency(tcard)

\* C9: in every outcome skipped is the sum of the skip_reasons counts,
\* skipped plus the number of transformed listings is the number of cards,
\* every skip_reasons key is one of the six codes, and new_count is at most
\* the number of cards minus skipped.
C9_CountsAddUp ==
    \A i \in Invocations :
        inv[i].pc = "done"
        => LET o == inv[i].outcome
           IN  /\ o.skipped = SumOf(o.skip_reasons)
               /\ o.skipped + Len(inv[i].sell_listings) = Len(cards)
               /\ DOMAIN o.skip_reasons \subseteq SkipCodes
               /\ \A k \in DOMAIN o.skip_reasons : o.skip_reasons[k] >= 1
               /\ o.new_count <= Len(cards) - o.skipped

\* An outcome that counts two cards skipped for one reason
C9_Witness ==
    \E i \in Invocations :
        /\ inv[i].pc = "done"
        /\ inv[i].outcome.skipped = 2
        /\ \E k \in DOMAIN inv[i].outcome.skip_reasons : inv[i].outcome.skip_reasons[k] = 2

\* C10: every emitted listing has action 1, a non-empty channelItemId,
\* sellPriceOriginal > 0, sellPriceUsd > 0 and currencyOriginal "MXN",
\* whatever fx_rate is passed in; a card whose currency is not MXN is
\* rejected.
C10_EmittedListingInvariants ==
    /\ tres.kind = "listing"
       => /\ tres.listing.action = 1
          /\ tres.listing.channelItemId.t = "str" /\ tres.listing.channelItemId.s # ""
          /\ ~tres.listing.sellPriceOriginal.nan /\ tres.listing.sellPriceOriginal.m > 0
          /\ ~tres.listing.sellPriceUsd.nan /\ tres.listing.sellPriceUsd.m > 0
          /\ tres.listing.currencyOriginal = "MXN"
    /\ (tres.kind # "none" /\ Truthy(Get(tcard, "currency"))
        /\ Get(tcard, "currency").t = "str" /\ Upper(Get(tcard, "currency").s) # "MXN")
       => tres.kind = "skip"

\* The card passes the two checks that precede the price check
ReachesPriceCheck(card) ==
    PermalinkCheck(card).kind = "pass" /\ TitleCheck(card).kind = "pass"

\* C11: for a card with a valid permalink and title, a price_mxn of 0 or
\* below is always skipped as missing_price, whatever the other fields hold,
\* and a price_mxn above 0 is never skipped as missing_price.
C11_NonPositivePriceIsMissingPrice ==
    (tres.kind # "none" /\ ReachesPriceCheck(tcard) /\ Get(tcard, "price_mxn").t = "num")
    => /\ Get(tcard, "price_mxn").n <= 0 => tres = Skipped(SKIP_MISSING_PRICE)
       /\ Get(tcard, "price_mxn").n > 0
          => ~(tres.kind = "skip" /\ tres.code = SKIP_MISSING_PRICE)

\* The listings the call of the test emitted
EmittedListings ==
    (IF tres.kind = "listing" THEN {tres.listing} ELSE {})
    \cup {tpayload.sellListings[j] : j \in 1..Len(tpayload.sellListings)}

\* C12: in every listing emitted by transform_to_sell_listing or by
\* build_sell_listings_payload, fxRateToUsd is the rate passed in,
\* sellPriceOriginal is the card's price, and sellPriceUsd is their product
\* rounded to 6 decimals: it lies within half a millionth of the product (a
\* price that is not a number gives a sellPriceUsd that is not a number).
\* A price of 100.0 at the rate 0.05842 gives 5.842.
C12_UsdIsRoundedProduct ==
    \A l \in EmittedListings :
        /\ l.fxRateToUsd = tfx
        /\ (PriceRaw(tcard).t = "num") => l.sellPriceOriginal = Fin(PriceRaw(tcard).n)
        /\ l.sellPriceUsd.nan <=> l.sellPriceOriginal.nan
        /\ ~l.sellPriceOriginal.nan
           => /\ 100 * l.sellPriceUsd.m - 50 <= l.sellPriceOriginal.m * l.fxRateToUsd
              /\ l.sellPriceOriginal.m * l.fxRateToUsd <= 100 * l.sellPriceUsd.m + 50
        /\ (l.sellPriceOriginal = Fin(100000) /\ l.fxRateToUsd = 5842)
           => l.sellPriceUsd = Fin(5842000)

\* build_sell_listings_payload emitted a listing whose product had to be
\* rounded: 42.37 at 0.05842 is 2.4752554, emitted as 2.475255
C12_Witness ==
    /\ tpayload.kind = "payload" /\ Len(tpayload.sellListings) = 1
    /\ tpayload.sellListings[1].sellPriceOriginal = Fin(42370)
    /\ tpayload.sellListings[1].sellPriceUsd = Fin(2475255)

\* The channel key the identity resolver derives from a permalink: extract_ids
\* followed by compute_channel_item_id
ResolverKey(permalink) ==
    Bind(extract_ids(permalink), LAMBDA ids :
        compute_channel_item_id(ids.item_id, ids.product_id, ids.up_id, permalink)[1])

\* C13: for every emitted listing, the identity resolver applied to the
\* listing's permalink gives the listing's channelItemId, also when the card
\* carried channel_item_id, id_source, item_id, product_id or up_id fields.
C13_KeyRoundTrips ==
    \A l \in EmittedListings : ResolverKey(l.permalink) = l.channelItemId

\* The text lit, followed by at least lo decimal digits, occurs in p
Occurs(p, lit, lo) ==
    \E i \in 1..(Len(p) - Len(lit) - lo + 1) :
        /\ SubSeq(p, i, i + Len(lit) - 1) = lit
        /\ \A k \in 1..lo : Ch(p, i + Len(lit) - 1 + k) \in DigitChars

\* The five URL shapes
HasUnifiedSegment(p) == Occurs(p, "/up/MLMU", 1)

HasCatalogSegment(p) == Occurs(p, "/p/MLM", 1)

HasDashedItemId(p) == Occurs(p, "/MLM-", 6)

HasBareItemId(p) == Occurs(p, "MLM", 6)

HasWidItemId(p) ==
    LET wid == FirstWid(UrlQuery(p))
    IN  Len(wid) >= 9 /\ SubSeq(wid, 1, 3) = "MLM" /\ DigitRun(wid, 4) >= 6

\* The id the first matching shape sets, in the documented order
ExpectedId(p) ==
    IF HasUnifiedSegment(p) THEN {"up_id"}
    ELSE IF HasCatalogSegment(p) THEN {"product_id"}
    ELSE IF HasDashedItemId(p) \/ HasBareItemId(p) \/ HasWidItemId(p) THEN {"item_id"}
    ELSE {}

NonEmpty(v) == v.t = "str" /\ v.s # ""

\* The first non-empty of product_id, item_id, up_id with its id_source, or
\* otherwise the pair given
FirstNonEmptyId(a, otherwise) ==
    IF NonEmpty(a.product_id) THEN <<a.product_id, "product_id">>
    ELSE IF NonEmpty(a.item_id) THEN <<a.item_id, "item_id">>
    ELSE IF NonEmpty(a.up_id) THEN <<a.up_id, "up_id">>
    ELSE otherwise

\* C15: compute_channel_item_id returns the first non-empty of product_id,
\* item_id, up_id with the matching id_source, otherwise the SHA-1 hex digest
\* of the permalink with "hash"; the channel_item_id is non-empty whenever
\* the permalink is non-empty.
C15_FirstNonEmptyElseSha1 ==
    pcall.fn = "compute_channel_item_id"
    => /\ pcall.res = FirstNonEmptyId(pcall.args,
                                      <<PyStr(Sha1Hex(pcall.args.permalink)), "hash">>)
       /\ pcall.args.permalink # "" => NonEmpty(pcall.res[1])

\* C15 as amended: compute_channel_item_id returns the first non-empty of
\* product_id, item_id, up_id with the matching id_source; otherwise the
\* SHA-1 hex digest of the permalink with "hash" when the permalink is
\* non-empty, and the empty string with "hash" when it is empty; the
\* channel_item_id is non-empty whenever the permalink is non-empty.
C15_FirstNonEmptyElseSha1OfPermalinkIfAny ==
    pcall.fn = "compute_channel_item_id"
    => /\ pcall.res = FirstNonEmptyId(pcall.args,
                          IF pcall.args.permalink # ""
                          THEN <<PyStr(Sha1Hex(pcall.args.permalink)), "hash">>
                          ELSE <<PyStr(""), "hash">>)
       /\ pcall.args.permalink # "" => NonEmpty(pcall.res[1])

\* compute_channel_item_id was given an empty product_id and no other id, and
\* fell back to the digest of the permalink
C15_Witness ==
    /\ pcall.fn = "compute_channel_item_id"
    /\ pcall.args.product_id = PyStr("") /\ pcall.args.item_id = PyNone
    /\ pcall.args.permalink # ""
    /\ pcall.res = <<PyStr(Sha1Hex(pcall.args.permalink)), "hash">>

\* C16: the crawl-time compute_needs_enrichment returns False exactly when
\* item_id is present (not None), the seller reference is present (not
\* None), and the URL is neither a catalog nor a unified-product page; an
\* assembled card has needs_enrichment False exactly when its permalink gave
\* an item_id and a seller was passed.
C16_NeedsEnrichmentIffIncomplete ==
    /\ pcall.fn = "compute_needs_enrichment"
       => (pcall.res = FALSE
           <=> /\ pcall.args.item_id # PyNone
               /\ pcall.args.seller_id # PyNone
               /\ ~pcall.args.is_catalog_product
               /\ ~pcall.args.is_up_product)
    /\ pcall.fn = "assemble_card"
       => (pcall.res.needs_enrichment = FALSE
           <=> /\ ExpectedId(pcall.args.permalink) = {"item_id"}
               /\ pcall.args.seller_id # PyNone)

\* The gate was given an empty item_id and the seller 0, both present, for a
\* page that is neither catalog nor unified, and returned False
C16_Witness ==
    /\ pcall.fn = "compute_needs_enrichment"
    /\ pcall.args.item_id = PyStr("") /\ pcall.args.seller_id = PyNum(0)
    /\ pcall.res = FALSE

\* The codes of classify_filter in the documented order
FilterCodes ==
    <<"missing_title", "missing_price", "invalid_url", "refurbished_not_allowed",
      "bundle_not_allowed", "carrier_locked_not_allowed", "accessory_only">>

\* The condition of the k-th check on the arguments a, a keyword check
\* counting only when its toggle does not allow the keyword
CheckMatches(k, a) ==
    LET title_lower == IF a.title.t = "str" THEN Lower(a.title.s) ELSE ""
    IN  CASE k = 1 -> a.title = PyNone \/ Len(Strip(a.title.s)) < 3
          [] k = 2 -> a.price_mxn = PyNone \/ a.price_mxn.n <= 0
          [] k = 3 -> ~Contains(Lower(a.permalink), "mercadolibre")
          [] k = 4 -> ~a.allow.allow_refurbished
                      /\ AnyKeyword(REFURBISHED_KEYWORDS, title_lower)
          [] k = 5 -> ~a.allow.allow_bundles /\ AnyKeyword(BUNDLE_KEYWORDS, title_lower)
          [] k = 6 -> ~a.allow.allow_locked /\ AnyKeyword(LOCKED_KEYWORDS, title_lower)
          [] k = 7 -> AnyKeyword(ACCESSORY_KEYWORDS, title_lower)

\* The checks that match the arguments a
MatchingChecks(a) == {k \in 1..7 : CheckMatches(k, a)}

\* C17: classify_filter returns at the first check that matches, in the
\* order missing_title, missing_price, invalid_url, refurbished, bundle,
\* carrier lock, accessory, with filtered_out true and that one code as
\* reasons; when no check matches it returns (false, []).  filtered_out is
\* true exactly when reasons is non-empty and reasons has at most one entry.
C17_FirstMatchingCheckFilters ==
    pcall.fn = "classify_filter"
    => LET hits == MatchingChecks(pcall.args)
           r == pcall.res
       IN  /\ hits = {} => (r.filtered_out = FALSE /\ r.filtered_reasons = <<>>)
           /\ hits # {}
              => (r.filtered_out = TRUE /\ r.filtered_reasons = <<FilterCodes[SetMin(hits)]>>)
           /\ r.filtered_out <=> r.filtered_reasons # <<>>
           /\ Len(r.filtered_reasons) <= 1

\* A title with a refurbished and a carrier keyword, neither allowed, on a
\* valid price and URL: two checks match and the earlier one alone is the
\* reason
C17_Witness ==
    /\ pcall.fn = "classify_filter"
    /\ MatchingChecks(pcall.args) = {4, 6}
    /\ pcall.res = Filtered("refurbished_not_allowed")

\* The outputs of the identity and enrichment layers of a card
IdentityOf(card) ==
    <<card.item_id, card.product_id, card.up_id, card.channel_item_id, card.id_source,
      card.needs_enrichment>>

\* The outputs of the filter layer of a card
FilterOf(card) == <<card.filtered_out, card.filtered_reasons>>

\* C18: the layers of assemble_card do not leak.  Two calls that differ only
\* in seller_id give the same filtered_out and filtered_reasons; two calls
\* that differ only in title, price or toggles give the same ids,
\* channel_item_id, id_source and needs_enrichment; and a card is filtered
\* out only for a business rule that its title, price, URL and toggles
\* match, never for its identity: two calls that differ only in the
\* channel URL give the same filter result.
C18_LayersDoNotLeak ==
    /\ (pcall.fn = "assemble_card" /\ pprev.fn = "assemble_card")
       => LET d == DiffersIn(pprev.args, pcall.args)
          IN  /\ d = {"seller"} => FilterOf(pcall.res) = FilterOf(pprev.res)
              /\ d = {"filter"} => IdentityOf(pcall.res) = IdentityOf(pprev.res)
              /\ ( /\ d = {"permalink"}
                    /\ Contains(Lower(pprev.args.permalink), "mercadolibre")
                    /\ Contains(Lower(pcall.args.permalink), "mercadolibre") )
                 => FilterOf(pcall.res) = FilterOf(pprev.res)
    /\ pcall.fn = "assemble_card"
       => /\ pcall.res.filtered_out
             => \E k \in MatchingChecks(pcall.args) :
                    pcall.res.filtered_reasons = <<FilterCodes[k]>>
          /\ MatchingChecks(pcall.args) = {} => ~pcall.res.filtered_out

\* Two calls that differ only in the seller: the first card needs enrichment
\* and has no item_id, the second does not need it, and neither is filtered
C18_Witness ==
    /\ pcall.fn = "assemble_card" /\ pprev.fn = "assemble_card"
    /\ DiffersIn(pprev.args, pcall.args) = {"seller"}
    /\ pprev.res.needs_enrichment /\ ~pcall.res.needs_enrichment
    /\ ~pprev.res.filtered_out /\ ~pcall.res.filtered_out

\* Whether the k-th request of the running call was answered 200
Answered200(k) == http.log[k].answer = Status(200)

\* The error get_html_with_fallback has recorded after its requests: that of
\* the last request answered 404, an error status or no response at all,
\* None when no request was
LastRecordedError ==
    LET recording == {k \in 1..Len(http.log) :
                         \/ http.log[k].answer.kind = "exception"
                         \/ http.log[k].answer.status_code >= 400}
    IN  IF recording = {}
        THEN "None"
        ELSE LET k == CHOOSE j \in recording : \A i \in recording : i <= j
             IN  IF http.log[k].answer = Status(404)
                 THEN "404 for " \o http.log[k].url
                 ELSE ErrorText(http.log[k].answer, http.log[k].url)

\* C19: get_html_with_fallback requests the primary URL and then the
\* fallbacks strictly in list order; the first 200 ends the call with the
\* body of that URL and nothing is requested after it; after a 404, another
\* status or an error the call goes on to the next URL; it raises only when
\* every URL of the list was requested and none answered 200, and the error
\* raised carries the last error recorded.
C19_FallbackInOrderUntilFirst200 ==
    http.op = "get_html_with_fallback"
    => LET n == Len(http.log)
       IN  /\ n <= Len(http.urls)
           /\ \A k \in 1..n : http.log[k].url = http.urls[k]
           /\ \A k \in 1..n :
                  Answered200(k)
                  => k = n /\ http.out = [kind |-> "return", value |-> Text(http.urls[k])]
           /\ http.out.kind = "return" => n >= 1 /\ Answered200(n)
           /\ (n < Len(http.urls) /\ \A k \in 1..n : ~Answered200(k))
              => http.out.kind = "running"
           /\ http.out.kind = "raise"
              => /\ n = Len(http.urls)
                 /\ \A k \in 1..n : ~Answered200(k)
                 /\ http.out.value
                    = "Failed to fetch from any URL. Last error: " \o LastRecordedError
           /\ (n = Len(http.urls) /\ \A k \in 1..n : ~Answered200(k))
              => http.out.kind = "raise"

\* The primary URL answered 404, the fallback answered 200 and its body was
\* returned
C19_Witness ==
    /\ http.op = "get_html_with_fallback"
    /\ http.urls = <<U_PRIMARY, U_FALLBACK>>
    /\ Len(http.log) = 2
    /\ http.log[1].answer = Status(404) /\ http.log[2].answer = Status(200)
    /\ http.out = [kind |-> "return", value |-> Text(U_FALLBACK)]

\* A 4xx status other than 429
PermanentStatus(a) ==
    a.kind = "response" /\ 400 <= a.status_code /\ a.status_code < 500 /\ a.status_code # 429

\* 429, 5xx or no response
TransientError(a) ==
    a.kind = "exception" \/ a.status_code = 429 \/ a.status_code >= 500

\* C20: in get_html, query_sell_listings and post_sell_listings a 4xx answer
\* other than 429 ends the call with the error and no further request, so a
\* call whose first answer is such a status issues exactly one request;
\* a 429, a 5xx or a network error is retried up to the attempts of the
\* function and the error leaves the call after the last one.
C20_OnlyTransientErrorsRetried ==
    http.op \in RetriedFunctions
    => LET n == Len(http.log)
       IN  /\ n <= StopAfter(http.op)
           /\ \A k \in 1..n :
                  PermanentStatus(http.log[k].answer)
                  => k = n /\ http.out.kind = "raise"
           /\ \A k \in 1..n :
                  TransientError(http.log[k].answer)
                  => IF k < StopAfter(http.op)
                     THEN k < n \/ http.out.kind = "running"
                     ELSE http.out.kind = "raise"

\* Whether the k-th request of the running call failed: no response, or a
\* response that is not ok
RequestFailed(k) ==
    \/ http.log[k].answer.kind = "exception"
    \/ http.log[k].answer.status_code >= 400

\* C21: resolve_click_tracker_url never raises.  A link that is no click
\* tracker is returned unchanged without a request.  For a tracker the first
\* request is a HEAD whose success returns the final URL; whenever the HEAD
\* fails, by a status that is not ok or by a raised error, a GET follows and
\* its success returns the final URL; the link itself is returned only when
\* both requests failed.
C21_HeadThenGetElseOriginal ==
    http.op = "resolve_click_tracker_url"
    => LET url == http.urls[1]
           n == Len(http.log)
       IN  /\ http.out.kind # "raise"
           /\ ~is_click_tracker_url(url)
              => n = 0 /\ http.out = [kind |-> "return", value |-> url]
           /\ n >= 1 => http.log[1].method = "HEAD"
           /\ n >= 2 => http.log[2].method = "GET" /\ RequestFailed(1)
           /\ n <= 2
           /\ (n >= 1 /\ ~RequestFailed(n))
              => http.out = [kind |-> "return", value |-> FinalUrl(url)]
           /\ (n = 1 /\ RequestFailed(1)) => http.out.kind = "running"
           /\ (is_click_tracker_url(url) /\ http.out = [kind |-> "return", value |-> url])
              => n = 2 /\ RequestFailed(1) /\ RequestFailed(2)

\* r is the text prefix, in either case, followed by decimal digits only
IsId(r, prefix) ==
    /\ Len(r) > Len(prefix)
    /\ Upper(SubSeq(r, 1, Len(prefix))) = prefix
    /\ \A k \in (Len(prefix) + 1)..Len(r) : Ch(r, k) \in DigitChars

\* r is written in p right after the text lit, lit in either case
WrittenAfter(p, lit, r) ==
    \E i \in 1..Len(p) :
        /\ i + Len(lit) + Len(r) - 1 <= Len(p)
        /\ Upper(SubSeq(p, i, i + Len(lit) - 1)) = lit
        /\ SubSeq(p, i + Len(lit), i + Len(lit) + Len(r) - 1) = r

\* What parse_channel_item_id must return for the two segments: the id that
\* follows /p/, or else the id that follows /up/
SegmentIdReturned(p, r) ==
    IF Occurs(Upper(p), "/P/MLM", 1)
    THEN IsId(r, "MLM") /\ WrittenAfter(p, "/P/", r)
    ELSE IsId(r, "MLMU") /\ WrittenAfter(p, "/UP/", r)

\* Whether the permalink has one of the two segments
HasSegment(p) == Occurs(Upper(p), "/P/MLM", 1) \/ Occurs(Upper(p), "/UP/MLMU", 1)

CarriesJsonLd(card) ==
    /\ card["attributes"].t \in {"dict", "str"}
    /\ Contains(card["attributes"].s, "\"jsonld\":{")

\* The card has a price_mxn or a price
CarriesPrice(card) == Get(card, "price_mxn") # PyNone \/ Get(card, "price") # PyNone

\* C23: the transform-time gate compute_needs_enrichment(card) returns True
\* exactly when the card carries no JSON-LD in its attribute bag and no
\* price, neither price_mxn nor price, whatever needs_enrichment flag the
\* crawl left on the card.
C23_IncompleteIffNoJsonLdAndNoPrice ==
    pcall.fn = "export.compute_needs_enrichment"
    => (pcall.res = TRUE
        <=> ~CarriesJsonLd(pcall.args.card) /\ ~CarriesPrice(pcall.args.card))

\* The delays of the backoff of the query phase, in seconds, by the number
\* of the failed attempt
BackoffDelays == <<2, 4, 8, 16>>

\* An invocation in the query phase is in one of its five attempts, and
\* sleeps only after a failed attempt that another one follows, for the
\* delay of that attempt
QueryPhaseBounded ==
    \A i \in Invocations :
        inv[i].pc = "query"
        => /\ inv[i].attempt \in 1..5
           /\ inv[i].slept # 0
              => /\ inv[i].attempt < 5
                 /\ inv[i].slept = BackoffDelays[inv[i].attempt]
                 /\ inv[i].resp.kind = "none"

\* A step of the query phase: the answer of a successful call ends the
\* phase with that answer; a failed attempt is followed by the sleep when it
\* is not the last and by the end of the phase, its RuntimeError caught,
\* when it is; the attempt counter moves only when a sleep ends
QueryPhaseStep ==
    \A i \in Invocations :
        (inv[i].pc = "query" /\ inv'[i] # inv[i])
        => /\ inv[i].resp.kind \in {"rows", "malformed"}
              => inv'[i].pc \in {"post", "done"} /\ inv'[i].query_end = inv[i].resp.kind
           /\ AttemptFails(inv[i])
              => IF inv[i].attempt < 5
                 THEN inv'[i].pc = "query" /\ inv'[i].slept # 0
                      /\ inv'[i].attempt = inv[i].attempt
                 ELSE inv'[i].pc \in {"post", "done"} /\ inv'[i].query_end = "exhausted"
           /\ inv'[i].pc = "query"
              => inv'[i].attempt = inv[i].attempt + (IF inv[i].slept # 0 THEN 1 ELSE 0)

\* C24: _query_existing_with_retry calls query_sell_listings at most five
\* times, returns the result of the first successful call without a further
\* call, sleeps base_delay * 2^(k-1) after the failed attempt k only when
\* another attempt follows, and raises after the last failed attempt; so
\* whatever the backend answers, an invocation in its query phase leaves it
\* and reaches the return of its outcome.
C24_QueryPhaseTerminates ==
    /\ []QueryPhaseBounded
    /\ [][QueryPhaseStep]_vars
    /\ \A i \in Invocations : (inv[i].pc = "query") ~> (inv[i].pc = "done")

\* The fourth attempt has failed and the invocation sleeps 16 seconds before
\* the last one
C24_Witness ==
    \E i \in Invocations :
        inv[i].pc = "query" /\ inv[i].attempt = 4 /\ inv[i].slept = 16

\* The cards of a returned list as a set
CardSet(cs) == {cs[k] : k \in 1..Len(cs)}

\* C25: the cards a scrape tool returns hold at most one card per
\* permalink, and two crawls that collected the same cards in different
\* orders, of the pages or within them, return the same set of cards.
C25_DedupIsOrderIndependent ==
    pcall.fn \in ScrapeTools
    => /\ \A j, k \in 1..Len(pcall.res) :
              pcall.res[j].permalink = pcall.res[k].permalink => j = k
       /\ pprev.fn = pcall.fn => CardSet(pcall.res) = CardSet(pprev.res)

\* C26 (as stated): once a rate is cached, every load_settings() call returns
\* that rate without an HTTP request and the cache never changes; a call that
\* ends with the cache empty has raised, and the next call with a backend
\* configured asks the backend again.
C26_CachedRateAlwaysReturned ==
    /\ [][fx_rate_cache.set =>
            /\ fx_rate_cache' = fx_rate_cache
            /\ http'.requests = 0
            /\ http'.out = [kind |-> "return", rate |-> fx_rate_cache.rate, error |-> ""]]_vars
    /\ [](http.op = "load_settings" /\ http.out.kind = "return" => fx_rate_cache.set)
    /\ [][(~fx_rate_cache.set /\ http'.requests = 0 /\ FxBaseUrl(http'.env) # "")
            => http'.out.kind = "running"]_vars

\* C26 (amended): once a rate is cached, no load_settings() call issues an
\* HTTP request or changes the cache, and every call that returns returns the
\* cached rate; a call that ends with the cache empty has raised, and the
\* next call with a backend configured asks the backend again.
C26_CachedRateServedWithoutRequest ==
    /\ [][fx_rate_cache.set =>
            /\ fx_rate_cache' = fx_rate_cache
            /\ http'.requests = 0
            /\ http'.out.kind \in {"return", "raise"}
            /\ http'.out.kind = "return" => http'.out.rate = fx_rate_cache.rate]_vars
    /\ [](http.op = "load_settings" /\ http.out.kind = "return" => fx_rate_cache.set)
    /\ [][(~fx_rate_cache.set /\ http'.requests = 0 /\ FxBaseUrl(http'.env) # "")
            => http'.out.kind = "running"]_vars

\* A call without FX_RATE_TO_USD returned the cached rate with no request
C26_Witness ==
    /\ http.op = "load_settings"
    /\ http.env.FX_RATE_TO_USD = PyAbsent
    /\ FxBaseUrl(http.env) # ""
    /\ http.requests = 0
    /\ http.out.kind = "return"
    /\ http.out.rate = fx_rate_cache.rate

\* C27: a card with an empty permalink is never valid. assemble_card gives
\* it the empty channel key and marks it filtered_out whatever its title and
\* price; no card returned by a scrape tool has an empty permalink; and no
\* listing emitted by transform_to_sell_listing has an empty permalink, an
\* empty channelItemId, or the SHA-1 digest of the empty string as its
\* channelItemId.
C27_EmptyPermalinkNeverValid ==
    /\ (pcall.fn = "assemble_card" /\ pcall.args.permalink = "")
       => /\ pcall.res.channel_item_id = PyStr("")
          /\ pcall.res.filtered_out
    /\ pcall.fn \in ScrapeTools
       => \A k \in 1..Len(pcall.res) : pcall.res[k].permalink # ""
    /\ \A l \in EmittedListings :
          /\ l.permalink # ""
          /\ l.channelItemId # PyStr("")
          /\ l.channelItemId # PyStr(Sha1Hex(""))

\* The card passes the five checks that precede the enrichment gate
ReachesEnrichmentGate(card) ==
    Then(PermalinkCheck(card), Then(TitleCheck(card), Then(PriceCheck(card),
    Then(CurrencyCheck(card), IdentityCheck(card))))).kind = "pass"

C29_PayloadKeysDistinct ==
    \A i \in Invocations :
        inv[i].posted
        => \A j, k \in 1..Len(inv[i].payload) :
               inv[i].payload[j].channelItemId = inv[i].payload[k].channelItemId => j = k

\* C30: for every permalink the three resolvers return the same channel
\* key: extract_identity on a card that carries only the permalink,
\* parse_channel_item_id, and compute_channel_item_id on the ids of
\* extract_ids; and the two that report an id_source report the same.
C30_ResolversAgree ==
    pcall.fn = "resolvers"
    => /\ pcall.res.identity.channel_item_id = PyStr(pcall.res.parsed)
       /\ pcall.res.identity.channel_item_id = pcall.res.computed[1]
       /\ pcall.res.identity.id_source = pcall.res.computed[2]

====
